---- MODULE Spec2Model ----
(***************************************************************************)
(* Model of the process-orchestration and streaming-translation subsystem  *)
(* of claude-code-api: ClaudeProcess / ClaudeManager (core/claude_manager  *)
(* .py), the chat-completions handler (api/chat.py) and the stream         *)
(* converter and aggregator (utils/streaming.py).                          *)
(*                                                                         *)
(* A handle (ClaudeProcess) is created by exactly one request, so handle   *)
(* fields are indexed by the request that constructed the handle.          *)
(* Four specifications share the actions:                                  *)
(*   Spec        the whole program: requests, manager, subprocesses,       *)
(*               reader tasks and response generation;                     *)
(*   SpecOutput  one handle whose output queue is fed by an arbitrary      *)
(*               producer, consumed through get_output by the stream       *)
(*               converter or by the collection loop;                      *)
(*   SpecGetOutput  the same under the default options, the consumer's     *)
(*               loop kept running;                                        *)
(*   SpecText    the converter applied to one assistant event for every    *)
(*               text, accumulated text and chunking mode.                 *)
(***************************************************************************)
EXTENDS Integers, Sequences, FiniteSets, TLC

----------------------------------------------------------------------------
(* Bounds of the model *)

\* number of requests (and so of handles) in Spec
NReq == 2
\* the configured ceiling is drawn from 0..MaxCeiling
MaxCeiling == 1
\* lines a subprocess writes to its stdout in Spec
MaxLines == 1
\* length of a text in SpecText
MaxLen == 3
\* items the producer of SpecOutput puts on the queue
MaxEvents == 2
\* lines the subprocess of SpecHandle writes to stdout and stderr
MaxHandleLines == 2
\* length of a text in SpecAggregate
MaxPartLen == 2
\* assistant events of one stream in SpecExtend
MaxChain == 2
\* events the producer of SpecCollect puts on the queue
MaxCollected == 12
\* blocks in a content list of SpecExtract
MaxBlocks == 2

Req == 1..NReq

----------------------------------------------------------------------------
(* Program constants *)

\* get_output: max_timeouts
max_timeouts == 3
\* create_chat_completion: len(messages) > 10
collect_cap == 10

----------------------------------------------------------------------------
(* Text: a string is a sequence of characters *)

Whitespace == {" ", "\n"}
Terminators == {"."}
Alphabet == {"a", " ", "."}

RECURSIVE TextsOfLen(_)
TextsOfLen(n) ==
    IF n = 0 THEN {<<>>}
    ELSE {Append(s, c) : s \in TextsOfLen(n - 1), c \in Alphabet}

TextsUpTo(n) == UNION {TextsOfLen(k) : k \in 0..n}

\* str.strip() == ""
IsBlank(s) == \A i \in 1..Len(s) : s[i] \in Whitespace

\* str.startswith
StartsWith(s, p) == Len(p) <= Len(s) /\ SubSeq(s, 1, Len(p)) = p

\* s[n:]
DropFirst(s, n) == SubSeq(s, n + 1, Len(s))

RECURSIVE Concat(_)
Concat(ss) == IF ss = <<>> THEN <<>> ELSE Head(ss) \o Concat(Tail(ss))

\* a strip that leaves trailing whitespace
RECURSIVE Strip_LeftOnly(_)
Strip_LeftOnly(s) ==
    IF s = <<>> THEN s
    ELSE IF Head(s) \in Whitespace THEN Strip_LeftOnly(Tail(s))
    ELSE s

RECURSIVE Strip(_)
Strip(s) ==
    IF s = <<>> THEN s
    ELSE IF Head(s) \in Whitespace THEN Strip(Tail(s))
    ELSE IF s[Len(s)] \in Whitespace THEN Strip(SubSeq(s, 1, Len(s) - 1))
    ELSE s

----------------------------------------------------------------------------
(* OpenAIStreamConverter._stream_content: delta and chunking *)

\* a delta rule that never strips the accumulated prefix
NewContent_Whole(content, accumulated) == content

\* the delta against the accumulated text (prefix stripping)
NewContent(content, accumulated) ==
    IF accumulated # <<>> /\ StartsWith(content, accumulated)
    THEN DropFirst(content, Len(accumulated))
    ELSE content

\* a character mode that skips whitespace
CharChunks_SkipSpace(s) ==
    LET t == SelectSeq(s, LAMBDA c : c \notin Whitespace)
    IN  [i \in 1..Len(t) |-> <<t[i]>>]

\* "character" mode: one chunk per character
CharChunks(s) == [i \in 1..Len(s) |-> <<s[i]>>]

\* str.split(): the maximal runs of non-whitespace characters
RECURSIVE SplitWords(_, _)
SplitWords(s, cur) ==
    IF s = <<>> THEN (IF cur = <<>> THEN <<>> ELSE <<cur>>)
    ELSE IF Head(s) \in Whitespace
         THEN (IF cur = <<>> THEN <<>> ELSE <<cur>>) \o SplitWords(Tail(s), <<>>)
         ELSE SplitWords(Tail(s), Append(cur, Head(s)))

\* "word" mode: each word, prefixed with a space except the first
WordChunks(s) ==
    LET words == SplitWords(s, <<>>)
    IN  [i \in 1..Len(words) |-> IF i > 1 THEN <<" ">> \o words[i] ELSE words[i]]

\* the whitespace run at the start of s
RECURSIVE LeadingSpace(_)
LeadingSpace(s) ==
    IF s # <<>> /\ Head(s) \in Whitespace
    THEN <<Head(s)>> \o LeadingSpace(Tail(s))
    ELSE <<>>

\* re.split(r'([.!?...]\s*)', s): the texts between the separators and the
\* separators themselves, alternating
RECURSIVE SplitSentences(_, _)
SplitSentences(s, cur) ==
    IF s = <<>> THEN <<cur>>
    ELSE IF Head(s) \in Terminators
         THEN LET ws == LeadingSpace(Tail(s))
              IN  <<cur, <<Head(s)>> \o ws>>
                    \o SplitSentences(DropFirst(Tail(s), Len(ws)), <<>>)
         ELSE SplitSentences(Tail(s), Append(cur, Head(s)))

\* re.search(r'[.!?...]\s*$', current_sentence.strip())
EndsSentence(current) ==
    LET t == Strip(current) IN t # <<>> /\ t[Len(t)] \in Terminators

\* "sentence" mode: the loop over the parts, and the remainder
RECURSIVE SentenceLoop(_, _)
SentenceLoop(parts, current) ==
    IF parts = <<>>
    THEN (IF ~IsBlank(current) THEN <<current>> ELSE <<>>)
    ELSE LET c == current \o Head(parts)
         IN  IF EndsSentence(c)
             THEN <<c>> \o SentenceLoop(Tail(parts), <<>>)
             ELSE SentenceLoop(Tail(parts), c)

SentenceChunks(s) == SentenceLoop(SplitSentences(s, <<>>), <<>>)

Modes == {"character", "word", "sentence", "message"}

\* the contents of the chunks _stream_content yields, in order
StreamContent(mode, content, accumulated) ==
    IF IsBlank(content) THEN <<>>
    ELSE LET new_content == NewContent(content, accumulated)
         IN  CASE mode = "character" -> CharChunks(new_content)
               [] mode = "word"      -> WordChunks(new_content)
               [] mode = "sentence"  -> SentenceChunks(new_content)
               [] OTHER              -> <<new_content>>

----------------------------------------------------------------------------
(* Events.  A JSON value is tagged: "str" (s), "list" (blocks), "null",     *)
(* "num" (any other value, truthy) or "absent" (the key is missing).        *)

StrC(s) == [tag |-> "str", s |-> s, blocks |-> <<>>]
ListC(bs) == [tag |-> "list", s |-> <<>>, blocks |-> bs]
NullC == [tag |-> "null", s |-> <<>>, blocks |-> <<>>]
NumC == [tag |-> "num", s |-> <<>>, blocks |-> <<>>]
AbsentC == [tag |-> "absent", s |-> <<>>, blocks |-> <<>>]

\* a content block {"type": type, "text": text}
Block(type, text) == [type |-> type, text |-> text]

\* Python truthiness of "not value", with the default of .get for a missing key
Falsy(c) ==
    \/ c.tag \in {"absent", "null"}
    \/ c.tag = "str" /\ c.s = <<>>
    \/ c.tag = "list" /\ c.blocks = <<>>

NoSession == <<"none", 0>>

\* an event: its "type", message.content ("message"), the top-level payload
\* ("content": content, result, error or tool_name according to the type) and
\* "session_id"
Event(type, message, content, sid) ==
    [type |-> type, message |-> message, content |-> content, sid |-> sid]

\* the queue-close sentinel (None)
Sentinel == Event("None", AbsentC, AbsentC, NoSession)

\* _extract_text_content
RECURSIVE FirstTextBlock(_)
FirstTextBlock(blocks) ==
    IF blocks = <<>> THEN <<>>
    ELSE IF Head(blocks).type = "text" /\ Head(blocks).text # <<>>
         THEN Head(blocks).text
         ELSE FirstTextBlock(Tail(blocks))

\* an extraction that handles only the plain string
ExtractTextContent_StrOnly(c) == IF c.tag = "str" THEN c.s ELSE <<>>

ExtractTextContent(c) ==
    CASE c.tag = "list" -> FirstTextBlock(c.blocks)
      [] c.tag = "str"  -> c.s
      [] OTHER          -> <<>>

\* the annotated blocks: "\n\n<emoji> **<label>:** <x>\n\n" ("E" stands for the
\* emoji, "L" for the label), and for a tool result the label is followed by "\n"
AnnotatedBlock(type, x) ==
    IF type = "tool_result"
    THEN <<"\n", "\n", "E", " ", "L", "\n">> \o x \o <<"\n", "\n">>
    ELSE <<"\n", "\n", "E", " ", "L", " ">> \o x \o <<"\n", "\n">>

\* str(value) of a payload in an f-string; "unknown"/"Unknown error" ("u") for
\* a missing tool_name/error, "" for a missing result
PayloadText(type, c) ==
    CASE c.tag = "str"    -> c.s
      [] c.tag = "absent" -> (IF type = "tool_result" THEN <<>> ELSE <<"u">>)
      [] OTHER            -> <<"v">>

\* the request's options
Options(stream, mode, thoughts, tools, metadata) ==
    [stream |-> stream, mode |-> mode, include_thoughts |-> thoughts,
     include_tool_calls |-> tools, include_metadata |-> metadata]

\* request defaults: chat.py passes False for the flags and "message"
DefaultOptions(stream) == Options(stream, "message", FALSE, FALSE, FALSE)

\* an annotated block is streamed with
\*     yield chunk; chunk.get(...)
\* where chunk is the SSE string: the first chunk is yielded, chunk.get raises
\* AttributeError, and the handler of the loop body continues with the next event
FirstChunkThenRaise(chunks) == IF chunks = <<>> THEN <<>> ELSE <<Head(chunks)>>

\* a block loop that reaches its accumulated_content += chunk_content
BlockAccumulated_Appended(acc, chunks) == acc \o Concat(chunks)

\* accumulated_content after an annotated block: the += in the loop comes
\* after chunk.get(...), which raises, and is never reached
BlockAccumulated(acc, chunks) == acc

\* a handler of the loop body that breaks
ExceptLeavesLoop_Break == TRUE

\* convert_stream: the except of the loop body ends in `continue`
ExceptLeavesLoop == FALSE

\* a converter that takes no notice of the inclusion flags
Included_Always(type, opt) == TRUE

\* convert_stream: the flag that gates the events of a type
Included(type, opt) ==
    CASE type = "thinking"                     -> opt.include_thoughts
      [] type \in {"tool_call", "tool_result"} -> opt.include_tool_calls
      [] type = "error"                        -> opt.include_metadata
      [] OTHER                                 -> TRUE

\* convert_stream: the body of the loop for one event.  chunks: the contents
\* yielded; acc: accumulated_content afterwards; brk: the loop is left
ConvertEvent(ev, acc, opt) ==
    LET none == [chunks |-> <<>>, acc |-> acc, brk |-> FALSE]
        block(x) == LET yielded == FirstChunkThenRaise(
                                       StreamContent(opt.mode, AnnotatedBlock(ev.type, x), acc))
                    IN  [chunks |-> yielded, acc |-> BlockAccumulated(acc, yielded),
                         brk |-> yielded # <<>> /\ ExceptLeavesLoop]
        raised == [chunks |-> <<>>, acc |-> acc, brk |-> ExceptLeavesLoop]
    IN  CASE ev.type = "assistant" ->
               LET message_content ==
                       IF Falsy(ev.message)
                       THEN (IF ev.content.tag = "absent" THEN StrC(<<>>) ELSE ev.content)
                       ELSE ev.message
                   text_content == ExtractTextContent(message_content)
               IN  IF ~IsBlank(text_content)
                   THEN [chunks |-> StreamContent(opt.mode, text_content, acc),
                         acc |-> text_content, brk |-> FALSE]
                   ELSE none
          [] ev.type = "thinking" /\ Included(ev.type, opt) ->
               \* thinking_content.strip() raises on a value that is no string
               IF ev.content.tag \notin {"str", "absent"} THEN raised
               ELSE IF ~IsBlank(ev.content.s) THEN block(ev.content.s)
               ELSE none
          [] ev.type \in {"tool_call", "tool_result"} /\ Included(ev.type, opt) ->
               block(PayloadText(ev.type, ev.content))
          [] ev.type = "error" /\ Included(ev.type, opt) ->
               block(PayloadText(ev.type, ev.content))
          [] ev.type = "result" -> [chunks |-> <<>>, acc |-> acc, brk |-> TRUE]
          [] OTHER -> none


----------------------------------------------------------------------------
(* State *)

VARIABLES
    \* ClaudeManager
    processes,          \* the tracking map: session id -> handle
    max_concurrent,     \* settings.max_concurrent_sessions
    stop_calls,         \* the session ids whose stop_session awaits stop()
    \* one request of create_chat_completion
    pc,                 \* where the request's coroutine is
    request,            \* its session_id and options
    status,             \* its outcome
    response_session,   \* claude_session_id = claude_process.session_id (chat.py:249)
    \* ClaudeProcess (the handle the request constructed)
    session_id,
    is_running,
    process,            \* self.process: "None" or "set"
    output_queue,
    error_queue,
    stop_pc,            \* where a call of stop() on the handle is
    \* the subprocess and its pipes
    os_state,           \* "none", "running", "stalled" (writes nothing, never exits), "exited"
    returncode,
    signalled,          \* terminate() was sent
    stdout_pipe,
    stderr_pipe,
    written,            \* lines written so far
    \* the reader tasks
    stdout_reader,
    stderr_reader,
    claude_session_id,  \* read_stdout's local
    \* get_output and its consumer
    gen,                \* the generator: "none", "open", "sentinel", "timeouts", "closed", "raised"
    timeout_count,
    accumulated_content,
    out,                \* the items the stream has yielded
    messages,           \* the events the collection loop has collected
    response,           \* the content of the non-streaming response
    \* StreamingManager
    active_streams      \* session id -> the request whose converter is registered

managerVars == <<processes, max_concurrent, stop_calls>>
requestVars == <<pc, request, status, response_session>>
handleVars == <<session_id, is_running, process, output_queue, error_queue, stop_pc>>
osVars == <<os_state, returncode, signalled, stdout_pipe, stderr_pipe, written>>
readerVars == <<stdout_reader, stderr_reader, claude_session_id>>
consumerVars == <<gen, timeout_count, accumulated_content, out, messages, response,
                  active_streams>>

vars == <<managerVars, requestVars, handleVars, osVars, readerVars, consumerVars>>

----------------------------------------------------------------------------
(* Values *)

\* session ids: named by a client, made by the session store for a new
\* session, or reported by the external tool
ClientSession == <<"client", 1>>
FreshSession(r) == <<"fresh", r>>
ToolSession == <<"tool", 1>>
OtherSession == <<"tool", 2>>

\* the empty map
EmptyMap == [x \in {} |-> 0]

MapPut(m, k, v) == [x \in DOMAIN m \cup {k} |-> IF x = k THEN v ELSE m[x]]

\* a del that leaves the entry in the map
MapDel_Keep(m, k) == m

MapDel(m, k) == [x \in DOMAIN m \ {k} |-> m[x]]

RECURSIVE MapDelAll(_, _)
MapDelAll(m, S) ==
    IF S = {} THEN m
    ELSE LET k == CHOOSE x \in S : TRUE IN MapDelAll(MapDel(m, k), S \ {k})

\* a queue that puts at the head
QueuePut_AtHead(q, x) == <<x>> \o q

\* asyncio.Queue.put on an unbounded queue: first in, first out
QueuePut(q, x) == Append(q, x)

\* a line of stdout: "dict" (a JSON object, parsed to ev), "nonjson" (raw text),
\* "blank" (nothing but whitespace), "value" (JSON that is no object, as 42)
Line(kind, ev, raw) == [kind |-> kind, ev |-> ev, raw |-> raw]

Assistant(text) == Event("assistant", StrC(text), AbsentC, NoSession)
Result == Event("result", AbsentC, AbsentC, NoSession)
System(sid) == Event("system", AbsentC, AbsentC, sid)
TextEvent(raw) == Event("text", AbsentC, StrC(raw), NoSession)

\* the text that marks the k-th line a subprocess writes
Tag(k) == [i \in 1..k |-> "a"]

\* the event read_stdout puts on the queue when it fails
ReaderError == Event("error", AbsentC, StrC(<<"e">>), NoSession)

\* the lines the subprocess of SpecHandle may write as its k-th line: a JSON
\* object with or without a session id, a line that is no JSON, a blank line
HandleLines(k) ==
    {Line("dict", Event("assistant", StrC(Tag(k)), AbsentC, sid), <<>>) :
        sid \in {NoSession, ToolSession, OtherSession}}
    \cup {Line("nonjson", Result, Tag(k)), Line("blank", Result, <<>>)}

\* what json.loads returns for a line of kind "value"
ValueEvent == Event("value", AbsentC, NumC, NoSession)

\* the lines the subprocess of SpecReader may write as its k-th line: those of
\* SpecHandle, a JSON value that is no object, a thinking event whose content
\* is no string
ReaderLines(k) ==
    HandleLines(k)
    \cup {Line("value", ValueEvent, <<>>),
          Line("dict", Event("thinking", AbsentC, NumC, NoSession), <<>>)}

\* the lines a subprocess of Spec may write
StdoutLines ==
    { Line("dict", Assistant(<<"a">>), <<>>),
      Line("dict", System(ToolSession), <<>>),
      Line("dict", Result, <<>>),
      Line("nonjson", Result, <<"b">>) }

\* an item of the stream: kind "role" (the initial chunk), "delta", "stop" (the
\* final chunk: empty delta, finish_reason "stop"), "done" ([DONE]), "error"
Item(kind, content) == [kind |-> kind, content |-> content]

Deltas(chunks) == [i \in 1..Len(chunks) |-> Item("delta", chunks[i])]

----------------------------------------------------------------------------
(* Initial state: the manager is constructed, no request has arrived *)

InitHandles ==
    /\ session_id = [r \in Req |-> NoSession]
    /\ is_running = [r \in Req |-> FALSE]
    /\ process = [r \in Req |-> "None"]
    /\ output_queue = [r \in Req |-> <<>>]
    /\ error_queue = [r \in Req |-> <<>>]
    /\ stop_pc = [r \in Req |-> "none"]
    /\ os_state = [r \in Req |-> "none"]
    /\ returncode = [r \in Req |-> 0]
    /\ signalled = [r \in Req |-> FALSE]
    /\ stdout_pipe = [r \in Req |-> <<>>]
    /\ stderr_pipe = [r \in Req |-> <<>>]
    /\ written = [r \in Req |-> 0]
    /\ stdout_reader = [r \in Req |-> "none"]
    /\ stderr_reader = [r \in Req |-> "none"]
    /\ claude_session_id = [r \in Req |-> NoSession]

InitConsumers ==
    /\ gen = [r \in Req |-> "none"]
    /\ timeout_count = [r \in Req |-> 0]
    /\ accumulated_content = [r \in Req |-> <<>>]
    /\ out = [r \in Req |-> <<>>]
    /\ messages = [r \in Req |-> <<>>]
    /\ response = [r \in Req |-> <<>>]
    /\ active_streams = EmptyMap

Init ==
    /\ processes = EmptyMap
    /\ max_concurrent \in 0..MaxCeiling
    /\ stop_calls = {}
    /\ pc = [r \in Req |-> "idle"]
    /\ request = [r \in Req |-> [session_id |-> NoSession, opt |-> DefaultOptions(FALSE)]]
    /\ status = [r \in Req |-> "none"]
    /\ response_session = [r \in Req |-> NoSession]
    /\ InitHandles
    /\ InitConsumers

----------------------------------------------------------------------------
(* create_chat_completion up to the return of create_session *)

\* a handle with a running subprocess
Running(h) == is_running[h]

\* the request arrives and is validated; it awaits the session store
Arrive(r, sid, opt) ==
    /\ pc[r] = "idle"
    /\ pc' = [pc EXCEPT ![r] = "lookup"]
    /\ request' = [request EXCEPT ![r] = [session_id |-> sid, opt |-> opt]]
    /\ UNCHANGED <<status, response_session, managerVars, handleVars, osVars,
                   readerVars, consumerVars>>

\* ClaudeManager.get_session
GetSession(sid) == IF sid \in DOMAIN processes THEN {processes[sid]} ELSE {}

\* chat.py:173-174: existing_process and existing_process.is_running
SessionBusy(sid) == \E h \in GetSession(sid) : is_running[h]

\* a capacity check that is off by one
CapacityReached_Above == Cardinality(DOMAIN processes) > max_concurrent

\* create_session: len(self.processes) >= self.max_concurrent
CapacityReached == Cardinality(DOMAIN processes) >= max_concurrent

\* a create_session that always constructs the handle with the caller's id
ActualSessionId_Fresh(sid, resume_session) == sid

\* create_session: the handle's session id
ActualSessionId(sid, resume_session) ==
    IF resume_session # NoSession THEN resume_session ELSE sid

\* the request ends with an HTTP error
Fail(r, code) ==
    /\ pc' = [pc EXCEPT ![r] = "done"]
    /\ status' = [status EXCEPT ![r] = code]

\* the session store has answered (info: what it knows of the named session);
\* the busy check, then create_session up to the spawn of the subprocess
CheckAndStart(r, info) ==
    /\ pc[r] = "lookup"
    /\ LET named == request[r].session_id # NoSession
           sid == IF named THEN request[r].session_id ELSE FreshSession(r)
           resume_session == IF named THEN sid ELSE NoSession
       IN  IF named /\ info = "active" /\ SessionBusy(sid)
           THEN /\ Fail(r, "409 session_busy")
                /\ UNCHANGED session_id
           ELSE IF CapacityReached
           THEN /\ Fail(r, "503 capacity")
                /\ UNCHANGED session_id
           ELSE /\ session_id' = [session_id EXCEPT ![r] = ActualSessionId(sid, resume_session)]
                /\ pc' = [pc EXCEPT ![r] = "spawning"]
                /\ UNCHANGED status
    /\ UNCHANGED <<request, response_session, managerVars, is_running, process,
                   output_queue, error_queue, stop_pc, osVars, readerVars, consumerVars>>

\* start: create_subprocess_exec has returned (ok) or raised; with the subprocess
\* started the reader tasks are created and start sleeps, then awaits its exit
Spawned(r, ok) ==
    /\ pc[r] = "spawning"
    /\ IF ok
       THEN /\ process' = [process EXCEPT ![r] = "set"]
            /\ is_running' = [is_running EXCEPT ![r] = TRUE]
            /\ os_state' = [os_state EXCEPT ![r] = "running"]
            /\ stdout_reader' = [stdout_reader EXCEPT ![r] = "running"]
            /\ stderr_reader' = [stderr_reader EXCEPT ![r] = "running"]
            /\ pc' = [pc EXCEPT ![r] = "waiting"]
            /\ UNCHANGED status
       ELSE /\ Fail(r, "503 startup")
            /\ UNCHANGED <<process, is_running, os_state, stdout_reader, stderr_reader>>
    /\ UNCHANGED <<request, response_session, managerVars, session_id, output_queue,
                   error_queue, stop_pc, returncode, signalled, stdout_pipe, stderr_pipe,
                   written, claude_session_id, consumerVars>>

\* start: process.wait() has returned; create_session returns the handle or raises
WaitReturn(r) ==
    /\ pc[r] = "waiting"
    /\ os_state[r] = "exited"
    /\ is_running' = [is_running EXCEPT ![r] = FALSE]
    /\ IF returncode[r] = 0
       THEN /\ output_queue' = [output_queue EXCEPT ![r] = Append(@, Sentinel)]
            /\ pc' = [pc EXCEPT ![r] = "created"]
            /\ response_session' = [response_session EXCEPT ![r] = session_id[r]]
            /\ UNCHANGED <<error_queue, status>>
       ELSE /\ error_queue' = [error_queue EXCEPT ![r] =
                    QueuePut(QueuePut(@, <<"Process failed with exit code">>), <<"None">>)]
            /\ Fail(r, "503 startup")
            /\ UNCHANGED <<output_queue, response_session>>
    /\ UNCHANGED <<request, managerVars, session_id, process, stop_pc, osVars,
                   readerVars, consumerVars>>

----------------------------------------------------------------------------
(* The subprocess *)

\* the subprocess writes a line to its stdout, as one of at most max lines
ProcWriteUpTo(r, line, max) ==
    /\ os_state[r] = "running"
    /\ written[r] < max
    /\ stdout_pipe' = [stdout_pipe EXCEPT ![r] = Append(@, line)]
    /\ written' = [written EXCEPT ![r] = @ + 1]
    /\ UNCHANGED <<managerVars, requestVars, handleVars, os_state, returncode, signalled,
                   stderr_pipe, readerVars, consumerVars>>

ProcWrite(r, line) == ProcWriteUpTo(r, line, MaxLines)

\* the subprocess writes a line to its stderr, marked like a line of stdout
ProcWriteErrUpTo(r, max) ==
    /\ os_state[r] = "running"
    /\ written[r] < max
    /\ stderr_pipe' = [stderr_pipe EXCEPT ![r] = Append(@, Tag(written[r] + 1))]
    /\ written' = [written EXCEPT ![r] = @ + 1]
    /\ UNCHANGED <<managerVars, requestVars, handleVars, os_state, returncode, signalled,
                   stdout_pipe, readerVars, consumerVars>>

ProcWriteErr(r) == ProcWriteErrUpTo(r, MaxLines)

\* the subprocess dies of the termination signal stop() has sent
ProcTerminated(h) ==
    /\ signalled[h]
    /\ os_state[h] \in {"running", "stalled"}
    /\ os_state' = [os_state EXCEPT ![h] = "exited"]
    /\ returncode' = [returncode EXCEPT ![h] = -15]
    /\ UNCHANGED <<managerVars, requestVars, handleVars, signalled, stdout_pipe,
                   stderr_pipe, written, readerVars, consumerVars>>

ProcExit(r, code) ==
    /\ os_state[r] = "running"
    /\ os_state' = [os_state EXCEPT ![r] = "exited"]
    /\ returncode' = [returncode EXCEPT ![r] = code]
    /\ UNCHANGED <<managerVars, requestVars, handleVars, signalled, stdout_pipe,
                   stderr_pipe, written, readerVars, consumerVars>>

\* from here on the subprocess writes nothing and does not exit by itself
ProcStall(r) ==
    /\ os_state[r] = "running"
    /\ os_state' = [os_state EXCEPT ![r] = "stalled"]
    /\ UNCHANGED <<managerVars, requestVars, handleVars, returncode, signalled,
                   stdout_pipe, stderr_pipe, written, readerVars, consumerVars>>

----------------------------------------------------------------------------
(* _process_output_streams: the reader tasks *)

\* a reader that adopts the session id of every event carrying one
AdoptedSessionId_Latest(current, local, ev) ==
    IF ev.sid # NoSession THEN ev.sid ELSE current

\* read_stdout: the session id of the first event carrying one is adopted
AdoptedSessionId(current, local, ev) ==
    IF local = NoSession /\ ev.sid # NoSession THEN ev.sid ELSE current

\* the events read_stdout puts on the queue for one line; a blank line is skipped
LineEvents(line) ==
    CASE line.kind = "dict"    -> <<line.ev>>
      [] line.kind = "nonjson" -> <<TextEvent(line.raw)>>
      [] OTHER                 -> <<>>

RECURSIVE QueuePutAll(_, _)
QueuePutAll(q, xs) == IF xs = <<>> THEN q ELSE QueuePutAll(QueuePut(q, Head(xs)), Tail(xs))

\* read_stdout's logging of a parsed event raises: thinking_content.strip()
\* on a content that is no string
LogRaises(ev) == ev.type = "thinking" /\ ev.content.tag \in {"num", "null", "list"}

\* the events read_stdout puts for a line before anything raises: a JSON value
\* that is no object has no .get, which raises before the put while no
\* session id was adopted, and after the put otherwise
PutEvents(line, local) ==
    IF line.kind = "value"
    THEN (IF local = NoSession THEN <<>> ELSE <<line.ev>>)
    ELSE LineEvents(line)

\* read_stdout has read one line and is back at self.process.stdout.readline():
\* when stop() has set self.process to None meanwhile, that raises, the handler
\* puts an error event on the queue and the reader ends; so it does when the
\* handling of the line raised
ReadStdout(r) ==
    /\ stdout_reader[r] = "running"
    /\ stdout_pipe[r] # <<>>
    /\ LET line == Head(stdout_pipe[r])
           raises == \/ process[r] = "None"
                     \/ line.kind = "value"
                     \/ line.kind = "dict" /\ LogRaises(line.ev)
       IN  /\ stdout_pipe' = [stdout_pipe EXCEPT ![r] = Tail(@)]
           /\ IF line.kind = "dict"
              THEN /\ session_id' = [session_id EXCEPT ![r] =
                          AdoptedSessionId(@, claude_session_id[r], line.ev)]
                   /\ claude_session_id' = [claude_session_id EXCEPT ![r] =
                          AdoptedSessionId(@, @, line.ev)]
              ELSE UNCHANGED <<session_id, claude_session_id>>
           /\ output_queue' = [output_queue EXCEPT ![r] =
                  QueuePutAll(@, PutEvents(line, claude_session_id[r])
                                   \o (IF raises THEN <<ReaderError>> ELSE <<>>))]
           /\ stdout_reader' = [stdout_reader EXCEPT ![r] =
                  IF raises THEN "failed" ELSE @]
    /\ UNCHANGED <<managerVars, requestVars, is_running, process, error_queue, stop_pc,
                   os_state, returncode, signalled, stderr_pipe, written,
                   stderr_reader, consumerVars>>

\* readline() returns b"" once the subprocess has exited and the pipe is drained
StdoutEOF(r) ==
    /\ stdout_reader[r] = "running"
    /\ stdout_pipe[r] = <<>>
    /\ os_state[r] = "exited"
    /\ stdout_reader' = [stdout_reader EXCEPT ![r] = "done"]
    /\ UNCHANGED <<managerVars, requestVars, handleVars, osVars, stderr_reader,
                   claude_session_id, consumerVars>>

\* read_stderr has read one line and is back at self.process.stderr.readline(),
\* which raises when stop() has set self.process to None: the reader ends
ReadStderr(r) ==
    /\ stderr_reader[r] = "running"
    /\ stderr_pipe[r] # <<>>
    /\ stderr_pipe' = [stderr_pipe EXCEPT ![r] = Tail(@)]
    /\ error_queue' = [error_queue EXCEPT ![r] = QueuePut(@, Head(stderr_pipe[r]))]
    /\ stderr_reader' = [stderr_reader EXCEPT ![r] =
           IF process[r] = "None" THEN "failed" ELSE @]
    /\ UNCHANGED <<managerVars, requestVars, session_id, is_running, process,
                   output_queue, stop_pc, os_state, returncode, signalled, stdout_pipe,
                   written, stdout_reader, claude_session_id, consumerVars>>

StderrEOF(r) ==
    /\ stderr_reader[r] = "running"
    /\ stderr_pipe[r] = <<>>
    /\ os_state[r] = "exited"
    /\ stderr_reader' = [stderr_reader EXCEPT ![r] = "done"]
    /\ UNCHANGED <<managerVars, requestVars, handleVars, osVars, stdout_reader,
                   claude_session_id, consumerVars>>


----------------------------------------------------------------------------
(* ClaudeProcess.stop *)

\* a stop() that takes every started subprocess for a live one
Live_ProcessSet(h) == process[h] = "set"

\* the subprocess of h has been started and has not exited
Live(h) == process[h] = "set" /\ os_state[h] \in {"running", "stalled"}

\* stop() up to its first await: the flag is cleared; terminate() is sent to a
\* live subprocess and stop awaits its exit for 3 seconds; on a subprocess that
\* has exited terminate() raises ProcessLookupError, which stop catches, and
\* with or without a subprocess stop ends with self.process = None
StopBegin(h) ==
    /\ is_running' = [is_running EXCEPT ![h] = FALSE]
    /\ IF Live(h)
       THEN /\ signalled' = [signalled EXCEPT ![h] = TRUE]
            /\ stop_pc' = [stop_pc EXCEPT ![h] = "terminating"]
            /\ UNCHANGED process
       ELSE /\ stop_pc' = [stop_pc EXCEPT ![h] = "stopped"]
            /\ process' = [process EXCEPT ![h] = "None"]
            /\ UNCHANGED signalled

----------------------------------------------------------------------------
(* create_non_streaming_response *)

Placeholder == <<"Hello! I'm Claude, ready to help.">>
EmptyPlaceholder == <<"Response received but content was empty.">>

\* the part one collected event contributes (<<>>: none)
ContentPart(msg, opt) ==
    CASE msg.type = "assistant" /\ msg.message.tag # "absent" ->
             LET text_content == ExtractTextContent(msg.message)
             IN  IF ~IsBlank(text_content) THEN <<text_content>> ELSE <<>>
      [] msg.type = "thinking" /\ opt.include_thoughts ->
             IF ~IsBlank(msg.content.s)
             THEN <<AnnotatedBlock(msg.type, msg.content.s)>> ELSE <<>>
      [] msg.type = "tool_call" /\ opt.include_tool_calls ->
             <<AnnotatedBlock(msg.type, PayloadText(msg.type, msg.content))>>
      [] msg.type = "tool_result" /\ opt.include_tool_calls ->
             IF ~IsBlank(msg.content.s)
             THEN <<AnnotatedBlock(msg.type, msg.content.s)>> ELSE <<>>
      [] msg.type = "error" /\ opt.include_metadata ->
             <<AnnotatedBlock(msg.type, PayloadText(msg.type, msg.content))>>
      [] OTHER -> <<>>

RECURSIVE ContentParts(_, _)
ContentParts(msgs, opt) ==
    IF msgs = <<>> THEN <<>>
    ELSE ContentPart(Head(msgs), opt) \o ContentParts(Tail(msgs), opt)

\* "\n".join(parts)
RECURSIVE JoinLines(_)
JoinLines(parts) ==
    IF parts = <<>> THEN <<>>
    ELSE IF Len(parts) = 1 THEN Head(parts)
    ELSE Head(parts) \o <<"\n">> \o JoinLines(Tail(parts))

\* an aggregation without the fallbacks for missing content
NonStreamingContent_NoPlaceholder(msgs, opt) == Strip(JoinLines(ContentParts(msgs, opt)))

NonStreamingContent(msgs, opt) ==
    LET content_parts == ContentParts(msgs, opt)
        complete_content == IF content_parts # <<>>
                            THEN Strip(JoinLines(content_parts))
                            ELSE Placeholder
    IN  IF complete_content = <<>> THEN EmptyPlaceholder ELSE complete_content

\* .strip() on a payload that is no string raises (chat.py:324 while collecting,
\* streaming.py:619 and 641 while aggregating)
StripRaises(msg) == msg.content.tag \notin {"str", "absent"}

CollectRaises(msg) == msg.type = "thinking" /\ StripRaises(msg)

RespondRaises(msgs, opt) ==
    \E i \in 1..Len(msgs) :
        \/ msgs[i].type = "thinking" /\ opt.include_thoughts /\ StripRaises(msgs[i])
        \/ msgs[i].type = "tool_result" /\ opt.include_tool_calls /\ StripRaises(msgs[i])

----------------------------------------------------------------------------
(* The response: get_output consumed by the stream converter or collected *)

\* create_session has returned and the session store is updated: either the
\* streaming response starts (the converter is registered, the initial chunk is
\* yielded) or the collection loop starts
BeginResponse(r) ==
    /\ pc[r] = "created"
    /\ gen' = [gen EXCEPT ![r] = "open"]
    /\ IF request[r].opt.stream
       THEN /\ pc' = [pc EXCEPT ![r] = "streaming"]
            /\ active_streams' = MapPut(active_streams, response_session[r], r)
            /\ out' = [out EXCEPT ![r] = <<Item("role", <<>>)>>]
       ELSE /\ pc' = [pc EXCEPT ![r] = "collecting"]
            /\ UNCHANGED <<active_streams, out>>
    /\ UNCHANGED <<request, status, response_session, managerVars, handleVars, osVars,
                   readerVars, timeout_count, accumulated_content, messages, response>>

\* a limit that allows one timeout more
TimedOut_Late(count) == count + 1 > max_timeouts

\* get_output: the timeout count after one more timeout
TimedOut(count) == count + 1 >= max_timeouts

\* a stream end without the final chunk
StopAndDone_DoneOnly == <<Item("done", <<>>)>>

\* convert_stream after its loop: the final chunk and the completion signal
StopAndDone == <<Item("stop", <<>>), Item("done", <<>>)>>

\* a cleanup that never stops the handle
StillRunning_Never(h) == FALSE

\* create_sse_response's finally: claude_process and claude_process.is_running
StillRunning(h) == is_running[h]

\* the generators of the response are left after a last yield of items: the
\* finally of create_stream removes the registry entry, the finally of
\* create_sse_response stops a handle that is still running
EndStream(r, items) ==
    /\ out' = [out EXCEPT ![r] = @ \o items]
    /\ active_streams' = MapDel(active_streams, response_session[r])
    /\ status' = [status EXCEPT ![r] = "200 stream"]
    /\ IF StillRunning(r)
       THEN /\ StopBegin(r)
            /\ pc' = [pc EXCEPT ![r] = IF Live(r) THEN "stopping" ELSE "done"]
       ELSE /\ pc' = [pc EXCEPT ![r] = "done"]
            /\ UNCHANGED <<is_running, signalled, stop_pc, process>>

\* the stream ends: convert_stream yields its last items, the final chunk and
\* the completion signal
FinishStream(r, items) == EndStream(r, items \o StopAndDone)

\* the client has gone while the response is streaming: the generators are
\* closed where they stand and nothing more is yielded
Disconnect(r) ==
    /\ pc[r] = "streaming"
    /\ gen[r] = "open"
    /\ gen' = [gen EXCEPT ![r] = "closed"]
    /\ EndStream(r, <<>>)
    /\ UNCHANGED <<request, response_session, managerVars, session_id, output_queue,
                   error_queue, os_state, returncode, stdout_pipe, stderr_pipe, written,
                   readerVars, timeout_count, accumulated_content, messages, response>>

\* convert_stream: one item pulled from get_output and processed
StreamPull(r) ==
    /\ pc[r] = "streaming"
    /\ gen[r] = "open"
    /\ output_queue[r] # <<>>
    /\ LET output == Head(output_queue[r])
           c == ConvertEvent(output, accumulated_content[r], request[r].opt)
       IN  /\ output_queue' = [output_queue EXCEPT ![r] = Tail(@)]
           /\ IF output = Sentinel
              THEN /\ gen' = [gen EXCEPT ![r] = "sentinel"]
                   /\ FinishStream(r, <<>>)
                   /\ UNCHANGED <<timeout_count, accumulated_content>>
              ELSE /\ accumulated_content' = [accumulated_content EXCEPT ![r] = c.acc]
                   /\ IF c.brk
                      THEN /\ gen' = [gen EXCEPT ![r] = "closed"]
                           /\ FinishStream(r, Deltas(c.chunks))
                           /\ UNCHANGED timeout_count
                      ELSE /\ out' = [out EXCEPT ![r] = @ \o Deltas(c.chunks)]
                           /\ timeout_count' = [timeout_count EXCEPT ![r] = 0]
                           /\ UNCHANGED <<gen, pc, status, active_streams, is_running,
                                          signalled, stop_pc, process>>
    /\ UNCHANGED <<request, response_session, managerVars, session_id,
                   error_queue, os_state, returncode, stdout_pipe, stderr_pipe, written,
                   readerVars, messages, response>>

\* convert_stream: the wait on the queue has timed out
StreamTimeout(r) ==
    /\ pc[r] = "streaming"
    /\ gen[r] = "open"
    /\ output_queue[r] = <<>>
    /\ timeout_count' = [timeout_count EXCEPT ![r] = @ + 1]
    /\ IF TimedOut(timeout_count[r])
       THEN /\ gen' = [gen EXCEPT ![r] = "timeouts"]
            /\ FinishStream(r, <<>>)
       ELSE UNCHANGED <<gen, out, active_streams, status, pc, is_running, signalled,
                        stop_pc, process>>
    /\ UNCHANGED <<request, response_session, managerVars, session_id,
                   output_queue, error_queue, os_state, returncode, stdout_pipe,
                   stderr_pipe, written, readerVars, accumulated_content, messages,
                   response>>

\* the collection loop has ended: the response is built and returned
Respond(r, msgs) ==
    IF RespondRaises(msgs, request[r].opt)
    THEN /\ Fail(r, "500 unexpected_error")
         /\ UNCHANGED response
    ELSE /\ Fail(r, "200")
         /\ response' = [response EXCEPT ![r] = NonStreamingContent(msgs, request[r].opt)]

\* a collection loop without the cap
StopCollecting_NoCap(msgs) == msgs[Len(msgs)].type = "result"

\* a collection loop that only stops at the cap
StopCollecting_CapOnly(msgs) == Len(msgs) > collect_cap

\* chat.py:347: is_final or len(messages) > 10
StopCollecting(msgs) ==
    msgs[Len(msgs)].type = "result" \/ Len(msgs) > collect_cap

\* the collection loop: one item pulled from get_output
CollectPull(r) ==
    /\ pc[r] = "collecting"
    /\ gen[r] = "open"
    /\ output_queue[r] # <<>>
    /\ LET output == Head(output_queue[r])
           msgs == Append(messages[r], output)
       IN  /\ output_queue' = [output_queue EXCEPT ![r] = Tail(@)]
           /\ IF output = Sentinel
              THEN /\ gen' = [gen EXCEPT ![r] = "sentinel"]
                   /\ Respond(r, messages[r])
                   /\ UNCHANGED <<timeout_count, messages>>
              ELSE IF CollectRaises(output)
              THEN /\ gen' = [gen EXCEPT ![r] = "closed"]
                   /\ Fail(r, "500 unexpected_error")
                   /\ UNCHANGED <<timeout_count, messages, response>>
              ELSE /\ messages' = [messages EXCEPT ![r] = msgs]
                   /\ IF StopCollecting(msgs)
                      THEN /\ gen' = [gen EXCEPT ![r] = "closed"]
                           /\ Respond(r, msgs)
                           /\ UNCHANGED timeout_count
                      ELSE /\ timeout_count' = [timeout_count EXCEPT ![r] = 0]
                           /\ UNCHANGED <<gen, pc, status, response>>
    /\ UNCHANGED <<request, response_session, managerVars, session_id, is_running,
                   process, error_queue, stop_pc, osVars, readerVars,
                   accumulated_content, out, active_streams>>

\* the collection loop: the wait on the queue has timed out
CollectTimeout(r) ==
    /\ pc[r] = "collecting"
    /\ gen[r] = "open"
    /\ output_queue[r] = <<>>
    /\ timeout_count' = [timeout_count EXCEPT ![r] = @ + 1]
    /\ IF TimedOut(timeout_count[r])
       THEN /\ gen' = [gen EXCEPT ![r] = "timeouts"]
            /\ Respond(r, messages[r])
       ELSE UNCHANGED <<gen, pc, status, response>>
    /\ UNCHANGED <<request, response_session, managerVars, handleVars, osVars,
                   readerVars, accumulated_content, out, messages, active_streams>>


\* one iteration of convert_stream's loop over get_output: wait_for delivers the
\* next item or times out after 10 seconds on an empty queue
StreamStep(r) ==
    IF output_queue[r] = <<>> THEN StreamTimeout(r) ELSE StreamPull(r)

\* one iteration of the collection loop over get_output
CollectStep(r) ==
    IF output_queue[r] = <<>> THEN CollectTimeout(r) ELSE CollectPull(r)

----------------------------------------------------------------------------
(* ClaudeManager: stop_session, check_zombie_processes, cleanup_all *)

\* a stop_session that stops and untracks every tracked handle
StopSession_All(s) ==
    /\ is_running' = [h \in Req |->
           IF \E t \in DOMAIN processes : processes[t] = h THEN FALSE ELSE is_running[h]]
    /\ stop_pc' = [h \in Req |->
           IF \E t \in DOMAIN processes : processes[t] = h THEN "stopped" ELSE stop_pc[h]]
    /\ process' = [h \in Req |->
           IF \E t \in DOMAIN processes : processes[t] = h THEN "None" ELSE process[h]]
    /\ processes' = EmptyMap
    /\ UNCHANGED <<max_concurrent, stop_calls, signalled, requestVars, session_id,
                   output_queue, error_queue, os_state, returncode, stdout_pipe,
                   stderr_pipe, written, readerVars, consumerVars>>

\* stop_session: nothing when the session is not tracked; with a live subprocess
\* it awaits stop() (stop_calls), otherwise stop() returns at once and the entry
\* is deleted
StopSession(s) ==
    /\ IF s \in DOMAIN processes
       THEN /\ StopBegin(processes[s])
            /\ IF Live(processes[s])
               THEN /\ stop_calls' = stop_calls \cup {s}
                    /\ UNCHANGED processes
               ELSE /\ processes' = MapDel(processes, s)
                    /\ UNCHANGED stop_calls
       ELSE UNCHANGED <<is_running, signalled, stop_pc, process, stop_calls, processes>>
    /\ UNCHANGED <<max_concurrent, requestVars, session_id,
                   output_queue, error_queue, os_state, returncode, stdout_pipe,
                   stderr_pipe, written, readerVars, consumerVars>>

\* check_zombie_processes: the tracked sessions whose subprocess has exited
ZombieSessions ==
    {s \in DOMAIN processes :
        process[processes[s]] = "set" /\ os_state[processes[s]] = "exited"}

\* check_zombie_processes (GET /health): stop_session for each zombie; stop()
\* of a handle whose subprocess has exited returns without suspending, so the
\* whole loop is one step
CheckZombieProcesses ==
    LET zombie_sessions == ZombieSessions
        zombies == {processes[s] : s \in zombie_sessions}
    IN  /\ is_running' = [h \in Req |-> IF h \in zombies THEN FALSE ELSE is_running[h]]
        /\ stop_pc' = [h \in Req |-> IF h \in zombies THEN "stopped" ELSE stop_pc[h]]
        /\ process' = [h \in Req |-> IF h \in zombies THEN "None" ELSE process[h]]
        /\ processes' = MapDelAll(processes, zombie_sessions)
        /\ UNCHANGED <<max_concurrent, stop_calls, requestVars, session_id, output_queue,
                       error_queue, osVars, readerVars, consumerVars>>

\* cleanup_all (shutdown): a stop_session task for every tracked session
CleanupAll ==
    IF DOMAIN processes = {}
    THEN UNCHANGED vars
    ELSE /\ is_running' = [h \in Req |->
                IF \E s \in DOMAIN processes : processes[s] = h THEN FALSE ELSE is_running[h]]
         /\ signalled' = [h \in Req |->
                IF \E s \in DOMAIN processes : processes[s] = h /\ Live(h)
                THEN TRUE ELSE signalled[h]]
         /\ stop_pc' = [h \in Req |->
                IF \E s \in DOMAIN processes : processes[s] = h
                THEN (IF Live(h) THEN "terminating" ELSE "stopped")
                ELSE stop_pc[h]]
         /\ process' = [h \in Req |->
                IF \E s \in DOMAIN processes : processes[s] = h /\ ~Live(h)
                THEN "None" ELSE process[h]]
         /\ stop_calls' = stop_calls \cup {s \in DOMAIN processes : Live(processes[s])}
         /\ processes' = [s \in {t \in DOMAIN processes : Live(processes[t])} |->
                              processes[s]]
         /\ UNCHANGED <<max_concurrent, requestVars, session_id,
                        output_queue, error_queue, os_state, returncode, stdout_pipe,
                        stderr_pipe, written, readerVars, consumerVars>>

----------------------------------------------------------------------------
(* Spec: the whole program.  The stderr side of a handle (ProcWriteErr,      *)
(* ReadStderr, StderrEOF) is not part of Spec: nothing reads error_queue,   *)
(* so it acts on no other variable.                                         *)

\* the steps of request r's own coroutine
RequestStep(r) ==
    \/ \E info \in {"absent", "active", "inactive"} : CheckAndStart(r, info)
    \/ \E ok \in BOOLEAN : Spawned(r, ok)
    \/ WaitReturn(r)
    \/ BeginResponse(r)
    \/ StreamStep(r)
    \/ CollectStep(r)

SessionInfos == {"absent", "active", "inactive"}
ExitCodes == {0, 2}

Next ==
    \/ \E r \in Req, sid \in {NoSession, ClientSession}, stream \in BOOLEAN :
          Arrive(r, sid, DefaultOptions(stream))
    \/ \E r \in Req, info \in SessionInfos : CheckAndStart(r, info)
    \/ \E r \in Req, ok \in BOOLEAN : Spawned(r, ok)
    \/ \E r \in Req : WaitReturn(r)
    \/ \E r \in Req, line \in StdoutLines : ProcWrite(r, line)
    \/ \E r \in Req, code \in ExitCodes : ProcExit(r, code)
    \/ \E r \in Req : ProcStall(r)
    \/ \E r \in Req : ReadStdout(r)
    \/ \E r \in Req : StdoutEOF(r)
    \/ \E r \in Req : BeginResponse(r)
    \/ \E r \in Req : StreamStep(r)
    \/ \E r \in Req : Disconnect(r)
    \/ \E r \in Req : CollectStep(r)
    \/ \E s \in {ClientSession, ToolSession} : StopSession(s)
    \/ CheckZombieProcesses
    \/ CleanupAll

Spec == Init /\ [][Next]_vars


----------------------------------------------------------------------------
(* SpecOutput: handle 1 is constructed and its output is being consumed by  *)
(* the stream converter or by the collection loop, under every setting of   *)
(* the options, while an arbitrary producer (the reader task, start) puts   *)
(* events and the sentinel on its output queue.                             *)

Flags == BOOLEAN \X BOOLEAN \X BOOLEAN

OutputOptions ==
    {Options(TRUE, mode, f[1], f[2], f[3]) : mode \in Modes, f \in Flags}
    \cup {Options(FALSE, "message", f[1], f[2], f[3]) : f \in Flags}

\* the events the producer puts on the queue
OutputEvents ==
    { Assistant(<<"a">>),
      Assistant(<<"a", " ", "a">>),
      Event("thinking", AbsentC, StrC(<<"a">>), NoSession),
      Event("thinking", AbsentC, NumC, NoSession),
      Event("tool_call", AbsentC, StrC(<<"a">>), NoSession),
      Event("error", AbsentC, StrC(<<"a">>), NoSession),
      System(NoSession),
      Result }

InitOutput ==
    /\ processes = EmptyMap
    /\ max_concurrent \in {MaxCeiling}
    /\ stop_calls = {}
    /\ \E opt \in OutputOptions :
          /\ request = [r \in Req |-> [session_id |-> NoSession,
                                       opt |-> IF r = 1 THEN opt ELSE DefaultOptions(FALSE)]]
          /\ pc = [r \in Req |-> IF r = 1 THEN (IF opt.stream THEN "streaming" ELSE "collecting")
                                 ELSE "idle"]
          /\ out = [r \in Req |-> IF r = 1 /\ opt.stream THEN <<Item("role", <<>>)>> ELSE <<>>]
          /\ active_streams = IF opt.stream THEN MapPut(EmptyMap, ClientSession, 1) ELSE EmptyMap
    /\ status = [r \in Req |-> "none"]
    /\ response_session = [r \in Req |-> IF r = 1 THEN ClientSession ELSE NoSession]
    /\ InitHandles
    /\ gen = [r \in Req |-> IF r = 1 THEN "open" ELSE "none"]
    /\ timeout_count = [r \in Req |-> 0]
    /\ accumulated_content = [r \in Req |-> <<>>]
    /\ messages = [r \in Req |-> <<>>]
    /\ response = [r \in Req |-> <<>>]

\* an event is put on the output queue (read_stdout: output_queue.put(data)),
\* as one of at most max events
ProduceUpTo(h, ev, max) ==
    /\ written[h] < max
    /\ output_queue' = [output_queue EXCEPT ![h] = Append(@, ev)]
    /\ written' = [written EXCEPT ![h] = @ + 1]
    /\ UNCHANGED <<managerVars, requestVars, session_id, is_running, process, error_queue,
                   stop_pc, os_state, returncode, signalled, stdout_pipe, stderr_pipe,
                   readerVars, consumerVars>>

Produce(h, ev) == ProduceUpTo(h, ev, MaxEvents)

\* the sentinel is put on the output queue, once (start: output_queue.put(None))
ProduceSentinel(h) ==
    /\ returncode[h] = 0
    /\ os_state[h] = "none"
    /\ os_state' = [os_state EXCEPT ![h] = "exited"]
    /\ output_queue' = [output_queue EXCEPT ![h] = Append(@, Sentinel)]
    /\ UNCHANGED <<managerVars, requestVars, session_id, is_running, process, error_queue,
                   stop_pc, returncode, signalled, stdout_pipe, stderr_pipe, written,
                   readerVars, consumerVars>>

NextOutput ==
    \/ \E ev \in OutputEvents : Produce(1, ev)
    \/ ProduceSentinel(1)
    \/ StreamStep(1)
    \/ CollectStep(1)

SpecOutput == InitOutput /\ [][NextOutput]_vars

----------------------------------------------------------------------------
(* SpecFlags: the stream of handle 1 under every combination of the flags   *)
(* and every chunking mode, fed with assistant events and events of the     *)
(* four gated kinds only.                                                   *)

FlagEvents ==
    { Assistant(<<"a">>),
      Assistant(<<"a", " ">>),
      Event("thinking", AbsentC, StrC(<<"a">>), NoSession),
      Event("tool_call", AbsentC, StrC(<<"a">>), NoSession),
      Event("tool_result", AbsentC, StrC(<<"a">>), NoSession),
      Event("error", AbsentC, StrC(<<"a">>), NoSession) }

InitFlags == InitOutput /\ request[1].opt.stream

NextFlags ==
    \/ \E ev \in FlagEvents : Produce(1, ev)
    \/ ProduceSentinel(1)
    \/ StreamStep(1)

SpecFlags == InitFlags /\ [][NextFlags]_vars

----------------------------------------------------------------------------
(* SpecAggregate: the collection loop and create_non_streaming_response on  *)
(* the output of handle 1, for every setting of the inclusion flags and     *)
(* events whose texts are blank, padded with whitespace or neither.         *)

PartTexts == TextsUpTo(MaxPartLen)

AggregateEvents ==
    {Assistant(t) : t \in PartTexts}
    \cup {Event(type, AbsentC, StrC(t), NoSession) :
             type \in {"thinking", "tool_result"}, t \in {<<"a">>, <<" ">>}}
    \cup { Event("thinking", AbsentC, NumC, NoSession),
           Event("tool_call", AbsentC, StrC(<<"a">>), NoSession),
           Event("error", AbsentC, StrC(<<"a">>), NoSession),
           System(NoSession),
           Result }

InitAggregate ==
    /\ InitOutput
    /\ ~request[1].opt.stream

NextAggregate ==
    \/ \E ev \in AggregateEvents : Produce(1, ev)
    \/ ProduceSentinel(1)
    \/ CollectStep(1)

SpecAggregate == InitAggregate /\ [][NextAggregate]_vars

----------------------------------------------------------------------------
(* SpecCollect: the collection loop of a non-streaming request with the     *)
(* default options over a handle that produces more events than the loop    *)
(* takes.                                                                    *)

CollectEvents == {System(NoSession), Result}

InitCollect ==
    /\ InitOutput
    /\ request[1].opt = DefaultOptions(FALSE)

NextCollect ==
    \/ \E ev \in CollectEvents : ProduceUpTo(1, ev, MaxCollected)
    \/ ProduceSentinel(1)
    \/ CollectStep(1)

SpecCollect == InitCollect /\ [][NextCollect]_vars

----------------------------------------------------------------------------
(* SpecExtract: one request, streamed or aggregated under the default       *)
(* options, over assistant events whose message content and top-level       *)
(* content are drawn from the JSON values: strings, lists of blocks, null,  *)
(* another value, or no value.                                              *)

BlockTexts == {<<>>, <<"a">>, <<".">>}

ContentBlocks == {Block(type, text) : type \in {"text", "tool_use"}, text \in BlockTexts}

RECURSIVE BlockListsOfLen(_)
BlockListsOfLen(n) ==
    IF n = 0 THEN {<<>>}
    ELSE {Append(bs, b) : bs \in BlockListsOfLen(n - 1), b \in ContentBlocks}

ContentValues ==
    {StrC(t) : t \in {<<>>, <<"a">>, <<" ">>}}
    \cup {ListC(bs) : bs \in UNION {BlockListsOfLen(k) : k \in 0..MaxBlocks}}
    \cup {NullC, NumC, AbsentC}

ExtractEvents ==
    {Event("assistant", c, d, NoSession) :
        c \in ContentValues, d \in {AbsentC, StrC(<<"a", ".">>)}}

InitExtract ==
    /\ InitOutput
    /\ request[1].opt \in {DefaultOptions(TRUE), DefaultOptions(FALSE)}

NextExtract ==
    \/ \E ev \in ExtractEvents : Produce(1, ev)
    \/ ProduceSentinel(1)
    \/ StreamStep(1)
    \/ CollectStep(1)

SpecExtract == InitExtract /\ [][NextExtract]_vars

----------------------------------------------------------------------------
(* SpecGetOutput: get_output of handle 1 under the default options, with    *)
(* the consumer's loop kept running: each wait on the queue returns an item *)
(* or times out.                                                            *)

InitGetOutput ==
    /\ InitOutput
    /\ request[1].opt \in {DefaultOptions(TRUE), DefaultOptions(FALSE)}

NextGetOutput ==
    \/ \E ev \in {Assistant(<<"a">>), System(NoSession), Result} : Produce(1, ev)
    \/ ProduceSentinel(1)
    \/ StreamStep(1)
    \/ CollectStep(1)

SpecGetOutput ==
    InitGetOutput /\ [][NextGetOutput]_vars /\ WF_vars(StreamStep(1) \/ CollectStep(1))

----------------------------------------------------------------------------
(* SpecText: the converter of handle 1 is about to process one assistant    *)
(* event, for every text of the event, every value of accumulated_content   *)
(* the converter can hold and every chunking mode.                          *)

Texts == TextsUpTo(MaxLen)

\* accumulated_content is empty or the non-blank text of an earlier event
AccumulatedTexts == {<<>>} \cup {t \in Texts : ~IsBlank(t)}

InitText ==
    /\ processes = EmptyMap
    /\ max_concurrent \in {MaxCeiling}
    /\ stop_calls = {}
    /\ \E mode \in Modes :
          request = [r \in Req |-> [session_id |-> NoSession,
                                    opt |-> IF r = 1 THEN Options(TRUE, mode, FALSE, FALSE, FALSE)
                                            ELSE DefaultOptions(FALSE)]]
    /\ pc = [r \in Req |-> IF r = 1 THEN "streaming" ELSE "idle"]
    /\ out = [r \in Req |-> IF r = 1 THEN <<Item("role", <<>>)>> ELSE <<>>]
    /\ active_streams = MapPut(EmptyMap, ClientSession, 1)
    /\ status = [r \in Req |-> "none"]
    /\ response_session = [r \in Req |-> IF r = 1 THEN ClientSession ELSE NoSession]
    /\ InitHandles
    /\ gen = [r \in Req |-> IF r = 1 THEN "open" ELSE "none"]
    /\ timeout_count = [r \in Req |-> 0]
    /\ \E acc \in AccumulatedTexts :
          accumulated_content = [r \in Req |-> IF r = 1 THEN acc ELSE <<>>]
    /\ messages = [r \in Req |-> <<>>]
    /\ response = [r \in Req |-> <<>>]

\* the assistant event arrives
ProduceAssistant(h, text) ==
    /\ written[h] = 0
    /\ Produce(h, Assistant(text))

NextText ==
    \/ \E text \in Texts : ProduceAssistant(1, text)
    \/ StreamPull(1)

SpecText == InitText /\ [][NextText]_vars

----------------------------------------------------------------------------
(* SpecExtend: a fresh converter of handle 1, in every chunking mode, is    *)
(* given a stream of assistant events of which each text extends the text   *)
(* before it (partial messages that grow), and then the sentinel.           *)

\* the sequences of n texts in which each text extends the one before it
RECURSIVE Chains(_)
Chains(n) ==
    IF n = 1 THEN {<<t>> : t \in Texts}
    ELSE UNION {{Append(c, t) : t \in {x \in Texts : StartsWith(x, c[Len(c)])}} :
                   c \in Chains(n - 1)}

ExtendingChains == UNION {Chains(n) : n \in 1..MaxChain}

InitExtend ==
    /\ processes = EmptyMap
    /\ max_concurrent = MaxCeiling
    /\ stop_calls = {}
    /\ \E mode \in Modes :
          request = [r \in Req |-> [session_id |-> NoSession,
                                    opt |-> IF r = 1 THEN Options(TRUE, mode, FALSE, FALSE, FALSE)
                                            ELSE DefaultOptions(FALSE)]]
    /\ pc = [r \in Req |-> IF r = 1 THEN "streaming" ELSE "idle"]
    /\ status = [r \in Req |-> "none"]
    /\ response_session = [r \in Req |-> IF r = 1 THEN ClientSession ELSE NoSession]
    /\ session_id = [r \in Req |-> IF r = 1 THEN ClientSession ELSE NoSession]
    /\ is_running = [r \in Req |-> FALSE]
    /\ process = [r \in Req |-> IF r = 1 THEN "set" ELSE "None"]
    /\ \E c \in ExtendingChains :
          output_queue = [r \in Req |->
              IF r = 1 THEN [i \in 1..Len(c) |-> Assistant(c[i])] \o <<Sentinel>>
              ELSE <<>>]
    /\ error_queue = [r \in Req |-> <<>>]
    /\ stop_pc = [r \in Req |-> "none"]
    /\ os_state = [r \in Req |-> IF r = 1 THEN "exited" ELSE "none"]
    /\ returncode = [r \in Req |-> 0]
    /\ signalled = [r \in Req |-> FALSE]
    /\ stdout_pipe = [r \in Req |-> <<>>]
    /\ stderr_pipe = [r \in Req |-> <<>>]
    /\ written = [r \in Req |-> 0]
    /\ stdout_reader = [r \in Req |-> IF r = 1 THEN "done" ELSE "none"]
    /\ stderr_reader = [r \in Req |-> IF r = 1 THEN "done" ELSE "none"]
    /\ claude_session_id = [r \in Req |-> NoSession]
    /\ gen = [r \in Req |-> IF r = 1 THEN "open" ELSE "none"]
    /\ timeout_count = [r \in Req |-> 0]
    /\ accumulated_content = [r \in Req |-> <<>>]
    /\ out = [r \in Req |-> IF r = 1 THEN <<Item("role", <<>>)>> ELSE <<>>]
    /\ messages = [r \in Req |-> <<>>]
    /\ response = [r \in Req |-> <<>>]
    /\ active_streams = MapPut(EmptyMap, ClientSession, 1)

NextExtend == StreamPull(1)

SpecExtend == InitExtend /\ [][NextExtend]_vars

----------------------------------------------------------------------------
(* SpecHandle: the methods of one ClaudeProcess in every interleaving.      *)
(* start() has been called on handle 1 and is at the spawn of the           *)
(* subprocess; the subprocess writes lines to stdout and stderr, exits by   *)
(* itself or stalls; the reader tasks run; a caller iterates get_output and *)
(* collects what it yields in messages; stop() is called at any time.       *)

\* stop() is called on handle h
StopCall(h) ==
    /\ StopBegin(h)
    /\ UNCHANGED <<managerVars, requestVars, session_id, output_queue, error_queue,
                   os_state, returncode, stdout_pipe, stderr_pipe, written, readerVars,
                   consumerVars>>

\* start: a stop() has released the process reference during the sleep that
\* precedes process.wait(); self.process.wait() raises, start returns False
WaitRaises(r) ==
    /\ pc[r] = "waiting"
    /\ process[r] = "None"
    /\ Fail(r, "503 startup")
    /\ UNCHANGED <<request, response_session, managerVars, handleVars, osVars,
                   readerVars, consumerVars>>

\* a stop() that kills when its wait ends, whether the subprocess exited or not
StopGraceExpired_NoWait(h) ==
    /\ stop_pc[h] = "terminating"
    /\ stop_pc' = [stop_pc EXCEPT ![h] = "killing"]
    /\ os_state' = [os_state EXCEPT ![h] = "exited"]
    /\ returncode' = [returncode EXCEPT ![h] = -9]
    /\ UNCHANGED <<managerVars, requestVars, session_id, is_running, process,
                   output_queue, error_queue, signalled, stdout_pipe, stderr_pipe,
                   written, readerVars, consumerVars>>

\* stop(): the 3 seconds have passed and the subprocess has not exited; kill()
\* is sent, which ends it
StopGraceExpired(h) ==
    /\ stop_pc[h] = "terminating"
    /\ os_state[h] # "exited"
    /\ stop_pc' = [stop_pc EXCEPT ![h] = "killing"]
    /\ os_state' = [os_state EXCEPT ![h] = "exited"]
    /\ returncode' = [returncode EXCEPT ![h] = -9]
    /\ UNCHANGED <<managerVars, requestVars, session_id, is_running, process,
                   output_queue, error_queue, signalled, stdout_pipe, stderr_pipe,
                   written, readerVars, consumerVars>>

\* stop(): process.wait() has returned; self.process = None and stop returns to
\* its caller: create_sse_response ends, stop_session deletes the entry
StopReturn(h) ==
    /\ stop_pc[h] \in {"terminating", "killing"}
    /\ os_state[h] = "exited"
    /\ stop_pc' = [stop_pc EXCEPT ![h] = "stopped"]
    /\ process' = [process EXCEPT ![h] = "None"]
    /\ pc' = [pc EXCEPT ![h] = IF @ = "stopping" THEN "done" ELSE @]
    /\ processes' = [s \in {t \in DOMAIN processes :
                              ~(t \in stop_calls /\ processes[t] = h)} |-> processes[s]]
    /\ stop_calls' = {s \in stop_calls : s \in DOMAIN processes /\ processes[s] # h}
    /\ UNCHANGED <<max_concurrent, request, status, response_session, session_id,
                   is_running, output_queue, error_queue, osVars, readerVars,
                   consumerVars>>

\* one iteration of get_output for a caller that keeps what is yielded
GetOutputStep(h) ==
    /\ gen[h] = "open"
    /\ IF output_queue[h] = <<>>
       THEN /\ timeout_count' = [timeout_count EXCEPT ![h] = @ + 1]
            /\ gen' = [gen EXCEPT ![h] = IF TimedOut(timeout_count[h]) THEN "timeouts" ELSE @]
            /\ UNCHANGED <<output_queue, messages>>
       ELSE /\ output_queue' = [output_queue EXCEPT ![h] = Tail(@)]
            /\ IF Head(output_queue[h]) = Sentinel
               THEN /\ gen' = [gen EXCEPT ![h] = "sentinel"]
                    /\ UNCHANGED <<timeout_count, messages>>
               ELSE /\ messages' = [messages EXCEPT ![h] = Append(@, Head(output_queue[h]))]
                    /\ timeout_count' = [timeout_count EXCEPT ![h] = 0]
                    /\ UNCHANGED gen
    /\ UNCHANGED <<managerVars, requestVars, session_id, is_running, process, error_queue,
                   stop_pc, osVars, readerVars, accumulated_content, out, response,
                   active_streams>>

InitHandle ==
    /\ processes = EmptyMap
    /\ max_concurrent \in {MaxCeiling}
    /\ stop_calls = {}
    /\ pc = [r \in Req |-> IF r = 1 THEN "spawning" ELSE "idle"]
    /\ request = [r \in Req |-> [session_id |-> NoSession, opt |-> DefaultOptions(FALSE)]]
    /\ status = [r \in Req |-> "none"]
    /\ response_session = [r \in Req |-> NoSession]
    /\ session_id = [r \in Req |-> IF r = 1 THEN ClientSession ELSE NoSession]
    /\ is_running = [r \in Req |-> FALSE]
    /\ process = [r \in Req |-> "None"]
    /\ output_queue = [r \in Req |-> <<>>]
    /\ error_queue = [r \in Req |-> <<>>]
    /\ stop_pc = [r \in Req |-> "none"]
    /\ os_state = [r \in Req |-> "none"]
    /\ returncode = [r \in Req |-> 0]
    /\ signalled = [r \in Req |-> FALSE]
    /\ stdout_pipe = [r \in Req |-> <<>>]
    /\ stderr_pipe = [r \in Req |-> <<>>]
    /\ written = [r \in Req |-> 0]
    /\ stdout_reader = [r \in Req |-> "none"]
    /\ stderr_reader = [r \in Req |-> "none"]
    /\ claude_session_id = [r \in Req |-> NoSession]
    /\ gen = [r \in Req |-> IF r = 1 THEN "open" ELSE "none"]
    /\ timeout_count = [r \in Req |-> 0]
    /\ accumulated_content = [r \in Req |-> <<>>]
    /\ out = [r \in Req |-> <<>>]
    /\ messages = [r \in Req |-> <<>>]
    /\ response = [r \in Req |-> <<>>]
    /\ active_streams = EmptyMap

NextHandle ==
    \/ \E ok \in BOOLEAN : Spawned(1, ok)
    \/ WaitReturn(1)
    \/ \E line \in HandleLines(written[1] + 1) : ProcWriteUpTo(1, line, MaxHandleLines)
    \/ ProcWriteErrUpTo(1, MaxHandleLines)
    \/ \E code \in ExitCodes : ProcExit(1, code)
    \/ ProcStall(1)
    \/ ProcTerminated(1)
    \/ ReadStdout(1)
    \/ StdoutEOF(1)
    \/ ReadStderr(1)
    \/ StderrEOF(1)
    \/ GetOutputStep(1)
    \/ StopCall(1)
    \/ StopGraceExpired(1)
    \/ StopReturn(1)
    \/ WaitRaises(1)

SpecHandle == InitHandle /\ [][NextHandle]_vars

----------------------------------------------------------------------------
(* ClaudeManager.create_session called directly, with a fresh id and with or *)
(* without a resume target, followed by start and the stdout reader.         *)

\* the resume targets a caller may name; NoSession: none (resume_session=None)
ResumeTargets == {NoSession, ClientSession, ToolSession}

\* create_session up to the spawn of the subprocess: the capacity check, then
\* the handle is constructed; request[r].session_id keeps the resume target
CreateSession(r, sid, resume_session) ==
    /\ pc[r] = "idle"
    /\ request' = [request EXCEPT ![r].session_id = resume_session]
    /\ IF CapacityReached
       THEN /\ Fail(r, "503 capacity")
            /\ UNCHANGED session_id
       ELSE /\ session_id' = [session_id EXCEPT ![r] = ActualSessionId(sid, resume_session)]
            /\ pc' = [pc EXCEPT ![r] = "spawning"]
            /\ UNCHANGED status
    /\ UNCHANGED <<response_session, managerVars, is_running, process, output_queue,
                   error_queue, stop_pc, osVars, readerVars, consumerVars>>

NextCreate ==
    \/ \E resume_session \in ResumeTargets :
           CreateSession(1, FreshSession(1), resume_session)
    \/ \E ok \in BOOLEAN : Spawned(1, ok)
    \/ \E line \in HandleLines(written[1] + 1) : ProcWriteUpTo(1, line, MaxHandleLines)
    \/ \E code \in ExitCodes : ProcExit(1, code)
    \/ ReadStdout(1)
    \/ StdoutEOF(1)
    \/ WaitReturn(1)

SpecCreate == Init /\ [][NextCreate]_vars

----------------------------------------------------------------------------
(* check_zombie_processes applied to a manager whose map tracks handles.     *)
(* create_session stores none, so in Spec the map is empty and the reaper    *)
(* finds nothing; here the map is an input: every map of sessions to         *)
(* distinct handles whose subprocess has just been spawned.                  *)

TrackedSessions == {ClientSession, ToolSession}

\* the maps of sessions to distinct handles
TrackedMaps ==
    UNION {{m \in [S -> Req] : \A s, t \in S : m[s] = m[t] => s = t} :
              S \in SUBSET TrackedSessions}

\* the session under which map m tracks handle h, or NoSession
TrackedAs(m, h) ==
    IF \E s \in DOMAIN m : m[s] = h THEN CHOOSE s \in DOMAIN m : m[s] = h ELSE NoSession

InitZombies ==
    \E m \in TrackedMaps :
        LET tracked(h) == TrackedAs(m, h) # NoSession
        IN  /\ processes = m
            /\ max_concurrent = MaxCeiling
            /\ stop_calls = {}
            /\ pc = [h \in Req |-> IF tracked(h) THEN "waiting" ELSE "idle"]
            /\ request = [r \in Req |-> [session_id |-> NoSession, opt |-> DefaultOptions(FALSE)]]
            /\ status = [r \in Req |-> "none"]
            /\ response_session = [r \in Req |-> NoSession]
            /\ session_id = [h \in Req |-> TrackedAs(m, h)]
            /\ is_running = [h \in Req |-> tracked(h)]
            /\ process = [h \in Req |-> IF tracked(h) THEN "set" ELSE "None"]
            /\ output_queue = [r \in Req |-> <<>>]
            /\ error_queue = [r \in Req |-> <<>>]
            /\ stop_pc = [r \in Req |-> "none"]
            /\ os_state = [h \in Req |-> IF tracked(h) THEN "running" ELSE "none"]
            /\ returncode = [r \in Req |-> 0]
            /\ signalled = [r \in Req |-> FALSE]
            /\ stdout_pipe = [r \in Req |-> <<>>]
            /\ stderr_pipe = [r \in Req |-> <<>>]
            /\ written = [r \in Req |-> 0]
            /\ stdout_reader = [h \in Req |-> IF tracked(h) THEN "running" ELSE "none"]
            /\ stderr_reader = [h \in Req |-> IF tracked(h) THEN "running" ELSE "none"]
            /\ claude_session_id = [r \in Req |-> NoSession]
            /\ InitConsumers

NextZombies ==
    \/ \E h \in Req, code \in ExitCodes : ProcExit(h, code)
    \/ \E h \in Req : WaitReturn(h)
    \/ \E h \in Req : WaitRaises(h)
    \/ \E h \in Req : StdoutEOF(h)
    \/ CheckZombieProcesses

SpecZombies == InitZombies /\ [][NextZombies]_vars

----------------------------------------------------------------------------
(* stop_session applied to a manager whose map tracks handles (the map is an *)
(* input, as for the reaper), with the subprocesses and the handles' start   *)
(* and stop running on.                                                      *)

NextStopSession ==
    \/ \E s \in TrackedSessions : StopSession(s)
    \/ \E h \in Req : StopGraceExpired(h)
    \/ \E h \in Req : StopReturn(h)
    \/ \E h \in Req, code \in ExitCodes : ProcExit(h, code)
    \/ \E h \in Req : ProcStall(h)
    \/ \E h \in Req : ProcTerminated(h)
    \/ \E h \in Req : WaitReturn(h)
    \/ \E h \in Req : WaitRaises(h)

SpecStopSession == InitZombies /\ [][NextStopSession]_vars

----------------------------------------------------------------------------
(* SpecManagerOps: stop_session, check_zombie_processes and cleanup_all     *)
(* called by concurrent callers on a manager whose map tracks handles (an   *)
(* input, as above).  Calls of stop_session for one session that await the  *)
(* same stop() are kept as one entry of stop_calls.                         *)

\* stop_session resumes after its await of stop() and another caller has
\* deleted the entry meanwhile: del self.processes[session_id] raises KeyError
\* and the call ends
StopSessionRaises(s) ==
    /\ s \in stop_calls
    /\ s \notin DOMAIN processes
    /\ stop_calls' = stop_calls \ {s}
    /\ UNCHANGED <<processes, max_concurrent, requestVars, handleVars, osVars,
                   readerVars, consumerVars>>

NextManagerOps ==
    \/ \E s \in TrackedSessions : StopSession(s)
    \/ \E s \in TrackedSessions : StopSessionRaises(s)
    \/ CheckZombieProcesses
    \/ CleanupAll
    \/ \E h \in Req : StopGraceExpired(h)
    \/ \E h \in Req : StopReturn(h)
    \/ \E h \in Req, code \in ExitCodes : ProcExit(h, code)
    \/ \E h \in Req : ProcStall(h)
    \/ \E h \in Req : ProcTerminated(h)
    \/ \E h \in Req : WaitReturn(h)
    \/ \E h \in Req : WaitRaises(h)

SpecManagerOps == InitZombies /\ [][NextManagerOps]_vars

----------------------------------------------------------------------------
(* SpecStream: create_sse_response on handle 1 while its start() runs as a  *)
(* task of its own: the subprocess is live when the stream begins, writes   *)
(* lines, exits, stalls or dies of the stop signal; the reader task runs;   *)
(* the client may go away at any time.                                      *)

\* start() of handle h has returned: it has put the sentinel or the failure
StartReturned(h) ==
    \/ \E i \in 1..Len(output_queue[h]) : output_queue[h][i] = Sentinel
    \/ gen[h] = "sentinel"
    \/ error_queue[h] # <<>>

\* start, run beside the consumer: process.wait() has returned
WaitReturnBeside(h) ==
    /\ os_state[h] = "exited"
    /\ ~StartReturned(h)
    /\ is_running' = [is_running EXCEPT ![h] = FALSE]
    /\ IF returncode[h] = 0
       THEN /\ output_queue' = [output_queue EXCEPT ![h] = QueuePut(@, Sentinel)]
            /\ UNCHANGED error_queue
       ELSE /\ error_queue' = [error_queue EXCEPT ![h] =
                    QueuePut(QueuePut(@, <<"Process failed with exit code">>), <<"None">>)]
            /\ UNCHANGED output_queue
    /\ UNCHANGED <<managerVars, requestVars, session_id, process, stop_pc, osVars,
                   readerVars, consumerVars>>

\* SSEFormatter.format_error: an error chunk with its message prefix
ErrorItem(prefix) == Item("error", <<prefix>>)

\* a convert_stream whose handler yields the error chunk and raises again
ConvertStreamExcept_Reraise == [items |-> <<ErrorItem("Stream error")>>, raised |-> TRUE]

\* convert_stream's outer except: one error chunk, then the generator returns
ConvertStreamExcept == [items |-> <<ErrorItem("Stream error")>>, raised |-> FALSE]

\* the except of create_stream and of create_sse_response around the inner
\* generator: only an exception that reaches it adds its own error chunk
WrapperExcept(inner) ==
    IF inner.raised
    THEN [items |-> inner.items \o <<ErrorItem("Streaming failed")>>, raised |-> FALSE]
    ELSE inner

\* fetching the next event raises an Exception inside convert_stream's outer
\* try: the handle given to create_sse_response is then not a ClaudeProcess,
\* whose get_output lets no Exception out
StreamRaises(r) ==
    /\ pc[r] = "streaming"
    /\ gen[r] = "open"
    /\ gen' = [gen EXCEPT ![r] = "raised"]
    /\ EndStream(r, WrapperExcept(WrapperExcept(ConvertStreamExcept)).items)
    /\ UNCHANGED <<request, response_session, managerVars, session_id, output_queue,
                   error_queue, os_state, returncode, stdout_pipe, stderr_pipe, written,
                   readerVars, timeout_count, accumulated_content, messages, response>>

InitStream ==
    /\ processes = EmptyMap
    /\ max_concurrent = MaxCeiling
    /\ stop_calls = {}
    /\ request = [r \in Req |-> [session_id |-> NoSession,
                                 opt |-> DefaultOptions(r = 1)]]
    /\ pc = [r \in Req |-> IF r = 1 THEN "streaming" ELSE "idle"]
    /\ status = [r \in Req |-> "none"]
    /\ response_session = [r \in Req |-> IF r = 1 THEN ClientSession ELSE NoSession]
    /\ session_id = [r \in Req |-> IF r = 1 THEN ClientSession ELSE NoSession]
    /\ is_running = [r \in Req |-> r = 1]
    /\ process = [r \in Req |-> IF r = 1 THEN "set" ELSE "None"]
    /\ output_queue = [r \in Req |-> <<>>]
    /\ error_queue = [r \in Req |-> <<>>]
    /\ stop_pc = [r \in Req |-> "none"]
    /\ os_state = [r \in Req |-> IF r = 1 THEN "running" ELSE "none"]
    /\ returncode = [r \in Req |-> 0]
    /\ signalled = [r \in Req |-> FALSE]
    /\ stdout_pipe = [r \in Req |-> <<>>]
    /\ stderr_pipe = [r \in Req |-> <<>>]
    /\ written = [r \in Req |-> 0]
    /\ stdout_reader = [r \in Req |-> IF r = 1 THEN "running" ELSE "none"]
    /\ stderr_reader = [r \in Req |-> IF r = 1 THEN "running" ELSE "none"]
    /\ claude_session_id = [r \in Req |-> NoSession]
    /\ gen = [r \in Req |-> IF r = 1 THEN "open" ELSE "none"]
    /\ timeout_count = [r \in Req |-> 0]
    /\ accumulated_content = [r \in Req |-> <<>>]
    /\ out = [r \in Req |-> IF r = 1 THEN <<Item("role", <<>>)>> ELSE <<>>]
    /\ messages = [r \in Req |-> <<>>]
    /\ response = [r \in Req |-> <<>>]
    /\ active_streams = MapPut(EmptyMap, ClientSession, 1)

NextStream ==
    \/ \E line \in StdoutLines : ProcWriteUpTo(1, line, MaxHandleLines)
    \/ \E code \in ExitCodes : ProcExit(1, code)
    \/ ProcStall(1)
    \/ ProcTerminated(1)
    \/ ReadStdout(1)
    \/ StdoutEOF(1)
    \/ WaitReturnBeside(1)
    \/ StreamStep(1)
    \/ Disconnect(1)
    \/ StreamRaises(1)
    \/ StopGraceExpired(1)
    \/ StopReturn(1)

SpecStream == InitStream /\ [][NextStream]_vars

----------------------------------------------------------------------------
(* SpecReader: the stdout reader of handle 1 beside start(): the subprocess *)
(* writes lines of every kind and exits; nothing stops the handle.          *)

InitReader ==
    /\ processes = EmptyMap
    /\ max_concurrent = MaxCeiling
    /\ stop_calls = {}
    /\ request = [r \in Req |-> [session_id |-> NoSession, opt |-> DefaultOptions(FALSE)]]
    /\ pc = [r \in Req |-> IF r = 1 THEN "waiting" ELSE "idle"]
    /\ status = [r \in Req |-> "none"]
    /\ response_session = [r \in Req |-> NoSession]
    /\ session_id = [r \in Req |-> IF r = 1 THEN ClientSession ELSE NoSession]
    /\ is_running = [r \in Req |-> r = 1]
    /\ process = [r \in Req |-> IF r = 1 THEN "set" ELSE "None"]
    /\ output_queue = [r \in Req |-> <<>>]
    /\ error_queue = [r \in Req |-> <<>>]
    /\ stop_pc = [r \in Req |-> "none"]
    /\ os_state = [r \in Req |-> IF r = 1 THEN "running" ELSE "none"]
    /\ returncode = [r \in Req |-> 0]
    /\ signalled = [r \in Req |-> FALSE]
    /\ stdout_pipe = [r \in Req |-> <<>>]
    /\ stderr_pipe = [r \in Req |-> <<>>]
    /\ written = [r \in Req |-> 0]
    /\ stdout_reader = [r \in Req |-> IF r = 1 THEN "running" ELSE "none"]
    /\ stderr_reader = [r \in Req |-> IF r = 1 THEN "running" ELSE "none"]
    /\ claude_session_id = [r \in Req |-> NoSession]
    /\ InitConsumers

NextReader ==
    \/ \E line \in ReaderLines(written[1] + 1) : ProcWriteUpTo(1, line, MaxHandleLines)
    \/ \E code \in ExitCodes : ProcExit(1, code)
    \/ ReadStdout(1)
    \/ StdoutEOF(1)
    \/ WaitReturn(1)

SpecReader == InitReader /\ [][NextReader]_vars

----------------------------------------------------------------------------
(* Claims checked under Spec *)

\* C1: in every reachable state, no two handles with a running subprocess
\* have the same session identifier
C1_OneRunningHandlePerSession ==
    \A r1, r2 \in Req :
        (r1 # r2 /\ is_running[r1] /\ is_running[r2]) => session_id[r1] # session_id[r2]

\* C2: a request that names a session for which a handle is running when the
\* request is admitted is rejected with 409 session_busy and starts no subprocess
C2_BusySessionRejected ==
    [][\A r \in Req :
          ( /\ pc[r] = "lookup"
            /\ pc'[r] # "lookup"
            /\ \E h \in Req : is_running[h] /\ session_id[h] = request[r].session_id )
          => (status'[r] = "409 session_busy" /\ pc'[r] = "done")]_vars

\* the subprocesses that have been started and have not exited
InFlight == {r \in Req : os_state[r] \in {"running", "stalled"}}

\* C3: the number of subprocesses in flight never exceeds max_concurrent_sessions
C3_InFlightWithinCeiling == Cardinality(InFlight) <= max_concurrent

\* C4: when create_session is called while the tracking map holds max_concurrent
\* handles (or more), the request ends with the capacity error, the tracking map
\* is unchanged, and no subprocess is ever spawned for the request
C4_CapacityError ==
    [][\A r \in Req :
          /\ ( /\ pc[r] = "lookup"
               /\ pc'[r] # "lookup"
               /\ status'[r] # "409 session_busy"
               /\ Cardinality(DOMAIN processes) >= max_concurrent )
             => ( /\ status'[r] = "503 capacity"
                  /\ pc'[r] = "done"
                  /\ processes' = processes
                  /\ os_state' = os_state
                  /\ process' = process )
          /\ status[r] = "503 capacity"
             => (os_state'[r] = "none" /\ process'[r] = "None" /\ pc'[r] = "done")]_vars

\* C4 witness: a request has ended with the capacity error
C4_Witness == \E r \in Req : status[r] = "503 capacity" /\ os_state[r] = "none"

\* C10: a request whose subprocess writes no output and never exits has ended
\* or can take a step
C10_StalledRequestEnds ==
    \A r \in Req : os_state[r] = "stalled" => (pc[r] = "done" \/ ENABLED RequestStep(r))

----------------------------------------------------------------------------
(* Claims checked under SpecText *)

\* the step pulls the head of handle r's output queue
Pulls(r) ==
    /\ pc[r] \in {"streaming", "collecting"}
    /\ output_queue[r] # <<>>
    /\ output_queue'[r] = Tail(output_queue[r])

\* the contents of the items the step adds to the stream of r
Emitted(r) ==
    LET new == SubSeq(out'[r], Len(out[r]) + 1, Len(out'[r]))
    IN  [i \in 1..Len(new) |-> new[i].content]

\* the text T of the assistant event at the head of r's queue
HeadText(r) == ExtractTextContent(Head(output_queue[r]).message)

PullsAssistantText(r) ==
    /\ Pulls(r)
    /\ pc[r] = "streaming"
    /\ Head(output_queue[r]).type = "assistant"
    /\ ~IsBlank(HeadText(r))

\* T with the prefix A removed when T extends A, all of T otherwise
DeltaOf(T, A) == IF StartsWith(T, A) THEN DropFirst(T, Len(A)) ELSE T

ChunksOf(mode, delta) ==
    CASE mode = "character" -> CharChunks(delta)
      [] mode = "word"      -> WordChunks(delta)
      [] mode = "sentence"  -> SentenceChunks(delta)
      [] OTHER              -> <<delta>>

\* C5: for an assistant event with non-blank text T and accumulated text A, the
\* delta that is emitted (as one chunk in message mode, chunked by the mode
\* otherwise) is T with the prefix A removed when T extends A, and all of T when
\* it does not.
C5_DeltaRule ==
    [][PullsAssistantText(1) =>
          Emitted(1) = ChunksOf(request[1].opt.mode,
                                DeltaOf(HeadText(1), accumulated_content[1]))]_vars

\* a proper suffix was emitted: the text "aa" against the accumulated text "a"
C5_Witness ==
    /\ request[1].opt.mode = "message"
    /\ accumulated_content[1] = <<"a", "a">>
    /\ out[1] = <<Item("role", <<>>), Item("delta", <<"a">>)>>

\* C6: in character mode the chunks emitted for a delta D are one per character
\* of D, whitespace included, and concatenated in order they equal D.
C6_CharacterChunksReassemble ==
    [][(PullsAssistantText(1) /\ request[1].opt.mode = "character") =>
          LET D == NewContent(HeadText(1), accumulated_content[1])
          IN  /\ Concat(Emitted(1)) = D
              /\ Len(Emitted(1)) = Len(D)
              /\ \A i \in 1..Len(D) : Emitted(1)[i] = <<D[i]>>]_vars

\* the delta "a ." was emitted character by character, the space included
C6_Witness ==
    /\ request[1].opt.mode = "character"
    /\ out[1] = <<Item("role", <<>>), Item("delta", <<"a">>), Item("delta", <<" ">>),
                  Item("delta", <<".">>)>>

----------------------------------------------------------------------------
(* Claims checked under SpecOutput and SpecGetOutput *)

PullsResult(r) == Pulls(r) /\ Head(output_queue[r]).type = "result"

\* C7: once a result event has been pulled no later event of the handle is
\* consumed or rendered: the stream gets the stop chunk and the completion
\* signal and nothing else, the collection loop stops with the result event as
\* its last message, and from then on nothing is taken from the queue and
\* neither the stream nor the collected messages change.
C7_NothingAfterResult ==
    [][/\ (PullsResult(1) /\ pc[1] = "streaming") =>
            (Emitted(1) = <<<<>>, <<>>>> /\ out'[1] = out[1] \o StopAndDone
               /\ gen'[1] = "closed" /\ pc'[1] \notin {"streaming", "collecting"})
       /\ (PullsResult(1) /\ pc[1] = "collecting") =>
            (messages'[1] = Append(messages[1], Result)
               /\ gen'[1] = "closed" /\ pc'[1] \notin {"streaming", "collecting"})
       /\ gen[1] = "closed" =>
            (/\ Len(output_queue'[1]) >= Len(output_queue[1])
             /\ out'[1] = out[1]
             /\ messages'[1] = messages[1]
             /\ response'[1] = response[1]
             /\ gen'[1] = "closed")]_vars

\* the stream has ended on a result event and an assistant event that was
\* queued behind it stays unconsumed
C7_Witness ==
    /\ status[1] = "200 stream"
    /\ gen[1] = "closed"
    /\ \E i \in 1..Len(output_queue[1]) : output_queue[1][i].type = "assistant"

Kinds(items) == [i \in 1..Len(items) |-> items[i].kind]

CountKind(items, kind) == Cardinality({i \in 1..Len(items) : items[i].kind = kind})

\* C8: a stream that has completed (on a result event, on the sentinel or on
\* output timeouts) holds exactly one stop chunk, after every delta chunk, and
\* exactly one completion signal, as its last item; a stream that has not
\* completed holds neither.
C8_OneStopThenDone ==
    LET o == out[1]
        n == Len(out[1])
    IN  /\ status[1] = "200 stream" =>
            /\ gen[1] \in {"closed", "sentinel", "timeouts"}
            /\ n >= 3
            /\ o[n].kind = "done"
            /\ o[n - 1].kind = "stop"
            /\ \A i \in 1..(n - 2) : o[i].kind \in {"role", "delta"}
            /\ CountKind(o, "stop") = 1
            /\ CountKind(o, "done") = 1
        /\ pc[1] = "streaming" => CountKind(o, "stop") + CountKind(o, "done") = 0
        /\ (request[1].opt.stream /\ gen[1] # "open") => status[1] = "200 stream"

\* a stream that emitted a delta and then ended on output timeouts
C8_Witness ==
    /\ status[1] = "200 stream"
    /\ gen[1] = "timeouts"
    /\ Kinds(out[1]) = <<"role", "delta", "stop", "done">>

\* the consumer of handle r carries on after its generator has ended, without
\* an exception of get_output's
EndsNormally(r) ==
    IF request[r].opt.stream
    THEN status'[r] = "200 stream"
    ELSE status'[r] = IF RespondRaises(messages[r], request[r].opt)
                      THEN "500 unexpected_error" ELSE "200"

\* C9: get_output is a finite sequence.  It ends on the sentinel, or on the
\* third consecutive timeout: a timeout on the empty queue adds one to the
\* count, a delivered event resets it, the generator is open exactly while the
\* count is below three, and when it ends on timeouts its consumer carries on
\* as after the sentinel, no exception reaching it.  With the consumer's loop
\* running, every get_output ends.
C9_GetOutputEnds ==
    /\ [](/\ gen[1] = "open" => timeout_count[1] < max_timeouts
          /\ gen[1] = "timeouts" => timeout_count[1] = max_timeouts)
    /\ [][/\ (gen[1] = "open" /\ gen'[1] = "sentinel") =>
                (Pulls(1) /\ Head(output_queue[1]) = Sentinel /\ EndsNormally(1))
          /\ (gen[1] = "open" /\ gen'[1] = "timeouts") =>
                (/\ output_queue[1] = <<>>
                 /\ timeout_count[1] = max_timeouts - 1
                 /\ EndsNormally(1))
          /\ (gen[1] = "open" /\ gen'[1] = "open" /\ Pulls(1)) => timeout_count'[1] = 0
          /\ (gen[1] = "open" /\ gen'[1] = "open" /\ ~Pulls(1)
                /\ timeout_count'[1] # timeout_count[1]) =>
                (output_queue[1] = <<>> /\ timeout_count'[1] = timeout_count[1] + 1)
          /\ gen[1] # "open" => gen'[1] = gen[1]]_vars
    /\ <>(gen[1] # "open")

\* an event was delivered, and then three timeouts in a row have
\* ended the generator
C9_Witness ==
    /\ gen[1] = "timeouts"
    /\ timeout_count[1] = max_timeouts
    /\ written[1] = 1
    /\ output_queue[1] = <<>>
    /\ \/ Len(out[1]) = 4
       \/ Len(messages[1]) = 1

\* C11: when get_output has ended on three consecutive timeouts the request
\* is reported as a failure: its status is no success status, or its stream
\* holds an error item that tells it from a normal completion.
C11_TimeoutReportedAsFailure ==
    \A r \in Req :
        gen[r] = "timeouts" =>
            \/ status[r] \notin {"200", "200 stream"}
            \/ \E i \in 1..Len(out[r]) : out[r][i].kind = "error"

----------------------------------------------------------------------------
(* Claims checked under Spec: exit codes, stop, session ids, tracking *)

\* start has handled a nonzero return code of the subprocess of handle h
FailedExitHandled(h) ==
    /\ process[h] = "set"
    /\ os_state[h] = "exited"
    /\ returncode[h] # 0
    /\ ~is_running[h]
    /\ pc[h] \notin {"waiting", "spawning"}

\* C12: once start has handled a nonzero exit code, the output queue of the
\* handle ends with one synthetic error event followed by the sentinel.
C12_ErrorEventThenSentinel ==
    \A h \in Req :
        FailedExitHandled(h) =>
            LET q == output_queue[h]
                n == Len(output_queue[h])
            IN  /\ n >= 2
                /\ q[n] = Sentinel
                /\ q[n - 1].type = "error"
                /\ Cardinality({i \in 1..n : q[i].type = "error"}) = 1

----------------------------------------------------------------------------
(* Claims checked under SpecHandle *)

\* the events of a sequence that were parsed from lines of stdout
StdoutEvents(evs) == SelectSeq(evs, LAMBDA e : e.type \in {"assistant", "text"})

\* the mark of an event parsed from a line of stdout
TagOf(ev) == IF ev.type = "assistant" THEN ev.message.s ELSE ev.content.s

\* the events the lines of a pipe will be parsed to
RECURSIVE PipeEvents(_)
PipeEvents(pipe) ==
    IF pipe = <<>> THEN <<>> ELSE LineEvents(Head(pipe)) \o PipeEvents(Tail(pipe))

Range(f) == {f[i] : i \in DOMAIN f}

\* C13: the events get_output has yielded, followed by those waiting on the
\* queue and those still to be parsed from the pipe, are in the order in which
\* the subprocess wrote their lines to stdout, none of them twice; what was
\* written to stderr is on the error queue or in its pipe and is no event.
C13_StdoutOrderKept ==
    LET all == StdoutEvents(messages[1]) \o StdoutEvents(output_queue[1])
                 \o PipeEvents(stdout_pipe[1])
        errs == Range(error_queue[1]) \cup Range(stderr_pipe[1])
    IN  /\ \A i, j \in 1..Len(all) : i < j => Len(TagOf(all[i])) < Len(TagOf(all[j]))
        /\ \A e \in Range(messages[1]) \cup Range(output_queue[1]) :
              /\ e.type \in {"assistant", "text", "error", "None"}
              /\ e.type \in {"assistant", "text"} => TagOf(e) \notin errs
        /\ \A e \in Range(messages[1]) : e # Sentinel

\* get_output has yielded the events of two lines of stdout, in their order
C13_Witness ==
    /\ Len(messages[1]) = 2
    /\ TagOf(messages[1][1]) = Tag(1)
    /\ TagOf(messages[1][2]) = Tag(2)

\* a stop() of handle h has returned and the handle is as it left it
Stopped(h) == stop_pc[h] = "stopped" /\ ~is_running[h] /\ process[h] = "None"

\* start() of handle h has returned: the subprocess has exited or was not spawned
Terminal(h) == pc[h] \in {"created", "done"} /\ ~is_running[h]

C15_GracefulThenKill ==
    [][/\ (Live(1) /\ StopCall(1)) =>
             /\ signalled'[1]
             /\ stop_pc'[1] = "terminating"
             /\ os_state' = os_state
             /\ returncode' = returncode
       /\ (stop_pc'[1] = "killing" /\ stop_pc[1] # "killing") =>
             /\ stop_pc[1] = "terminating"
             /\ signalled[1]
             /\ os_state[1] # "exited"
       /\ (returncode'[1] = -9 /\ returncode[1] # -9) => stop_pc'[1] = "killing"
       /\ (stop_pc[1] \in {"terminating", "killing"} /\ stop_pc'[1] = "stopped") =>
             /\ os_state'[1] = "exited"
             /\ ~is_running'[1]
             /\ process'[1] = "None"]_vars

\* a stop() has signalled a live subprocess, killed it after the wait and
\* returned
C15_Witness ==
    /\ stop_pc[1] = "stopped"
    /\ signalled[1]
    /\ os_state[1] = "exited"
    /\ returncode[1] = -9
    /\ ~is_running[1]

\* handle h has left Running: its subprocess has exited or a stop() was called
LeftRunning(h) == stop_pc[h] # "none" \/ os_state[h] = "exited"

\* C16: once a handle has left Running (subprocess exited, or stop requested)
\* its running flag does not go from false to true and no subprocess is spawned
\* for it, in any interleaving of start and stop.
C16_TerminalFinal ==
    [][LeftRunning(1) =>
          /\ ~is_running[1] => ~is_running'[1]
          /\ os_state[1] = "none" => os_state'[1] = "none"]_vars

\* the session id of the first event of evs that carries one, or NoSession
RECURSIVE FirstSessionId(_)
FirstSessionId(evs) ==
    IF evs = <<>> THEN NoSession
    ELSE IF Head(evs).sid # NoSession THEN Head(evs).sid
    ELSE FirstSessionId(Tail(evs))

\* the events read_stdout has parsed so far, in the order it parsed them
EventsRead(h) == StdoutEvents(messages[h]) \o StdoutEvents(output_queue[h])

\* C17: the session id of a handle is the id it was constructed with until
\* read_stdout has parsed an event carrying a session id, and from then on it is
\* the id of the first such event, whatever ids later events carry: it changes
\* at most once.
C17_SessionIdAdoptedOnce ==
    /\ session_id[1] = IF FirstSessionId(EventsRead(1)) = NoSession
                       THEN ClientSession
                       ELSE FirstSessionId(EventsRead(1))
    /\ claude_session_id[1] = FirstSessionId(EventsRead(1))

\* two events carrying different session ids have been read and yielded: the
\* handle has the id of the first
C17_Witness ==
    /\ Len(messages[1]) = 2
    /\ messages[1][1].sid = OtherSession
    /\ messages[1][2].sid = ToolSession
    /\ session_id[1] = OtherSession

----------------------------------------------------------------------------
(* Claims checked under SpecCreate *)

\* create_session has constructed the handle of request r
HandleCreated(r) == pc[r] # "idle" /\ status[r] # "503 capacity"

\* C18: a handle created with a resume target has that target as its session
\* id, and not the fresh id the caller supplied, as long as read_stdout has
\* parsed no event that carries a session id, and so before any line of stdout
\* is read; created without a resume target it has the caller's id.
C18_ResumeTargetIsSessionId ==
    (HandleCreated(1) /\ FirstSessionId(EventsRead(1)) = NoSession) =>
        session_id[1] = IF request[1].session_id # NoSession
                        THEN request[1].session_id
                        ELSE FreshSession(1)

\* a handle was created to resume a session, its subprocess has written a line
\* and no line has been read yet: the handle has the resume target's id
C18_Witness ==
    /\ HandleCreated(1)
    /\ request[1].session_id = ToolSession
    /\ session_id[1] = ToolSession
    /\ session_id[1] # FreshSession(1)
    /\ stdout_pipe[1] # <<>>
    /\ written[1] = Len(stdout_pipe[1])
    /\ output_queue[1] = <<>>

----------------------------------------------------------------------------
(* Claims checked under SpecZombies *)

\* C19: check_zombie_processes leaves no zombie tracked and untracks every
\* session it reclaimed, and only the exit of a subprocess makes a tracked
\* session a zombie: run again with no exit in between it reclaims none.
C19_SecondReapReclaimsNone ==
    [][/\ CheckZombieProcesses =>
             /\ ZombieSessions' = {}
             /\ ZombieSessions \cap DOMAIN processes' = {}
       /\ ZombieSessions' \subseteq ZombieSessions \/ os_state' # os_state]_vars

\* both tracked handles were zombies and the reaper has reclaimed them: their
\* sessions are untracked and a second run finds no zombie
C19_Witness ==
    /\ DOMAIN processes = {}
    /\ ZombieSessions = {}
    /\ Cardinality({h \in Req : /\ os_state[h] = "exited"
                                /\ stop_pc[h] = "stopped"
                                /\ process[h] = "None"}) = 2

----------------------------------------------------------------------------
(* Claims checked under Spec: lookup of in-flight handles *)

\* C20: while the subprocess of a request's handle has been started and has
\* neither exited nor been stopped, get_session of the handle's session id
\* returns that handle; for a session with no such handle it returns absence.
C20_LookupFindsInFlight ==
    /\ \A h \in Req : Live(h) /\ stop_pc[h] = "none" => GetSession(session_id[h]) = {h}
    /\ \A s \in {ClientSession, ToolSession} \cup {FreshSession(r) : r \in Req} :
          (\A h \in Req : ~(Live(h) /\ session_id[h] = s)) => GetSession(s) = {}

----------------------------------------------------------------------------
(* Claims checked under SpecStopSession *)

\* what stop() and the subprocess make of handle h
HandleState(h) ==
    <<is_running[h], process[h], stop_pc[h], signalled[h], os_state[h], returncode[h]>>

\* C21: stop_session(s) of a tracked session stops its handle (not running; a
\* live subprocess is signalled and the entry goes when stop() returns, any
\* other handle is untracked at once); of an untracked session it changes
\* nothing; and every other tracked session keeps its entry and its handle's
\* state. The return of stop() removes the entries of its stop_session calls
\* and no other.
C21_StopSessionFrame ==
    [][/\ \A s \in TrackedSessions : StopSession(s) =>
             /\ s \notin DOMAIN processes => vars' = vars
             /\ s \in DOMAIN processes =>
                   /\ ~is_running'[processes[s]]
                   /\ IF Live(processes[s])
                      THEN signalled'[processes[s]] /\ s \in stop_calls'
                      ELSE s \notin DOMAIN processes' /\ process'[processes[s]] = "None"
             /\ \A t \in DOMAIN processes \ {s} :
                   /\ t \in DOMAIN processes'
                   /\ processes'[t] = processes[t]
                   /\ HandleState(processes[t])' = HandleState(processes[t])
       /\ \A h \in Req : StopReturn(h) =>
             /\ \A s \in stop_calls : s \in DOMAIN processes /\ processes[s] = h
                                         => s \notin DOMAIN processes'
             /\ \A t \in DOMAIN processes :
                   processes[t] # h => t \in DOMAIN processes' /\ processes'[t] = processes[t]
    ]_vars

\* one session was stopped with a live subprocess and is untracked; the other
\* is tracked still and its handle runs on
C21_Witness ==
    /\ DOMAIN processes = {ToolSession}
    /\ Live(processes[ToolSession])
    /\ is_running[processes[ToolSession]]
    /\ stop_pc[processes[ToolSession]] = "none"
    /\ \E h \in Req : /\ session_id[h] = ClientSession
                      /\ stop_pc[h] = "stopped"
                      /\ signalled[h]
                      /\ os_state[h] = "exited"

----------------------------------------------------------------------------
(* Claims checked under SpecAggregate *)

\* the collection loop of request r has returned a response built from one
\* assistant event with a non-blank string and a result event, all flags off
OneTextThenResult(r) ==
    /\ status[r] = "200"
    /\ request[r].opt = DefaultOptions(FALSE)
    /\ Len(messages[r]) = 2
    /\ messages[r][1].type = "assistant"
    /\ messages[r][1].message.tag = "str"
    /\ ~IsBlank(messages[r][1].message.s)
    /\ messages[r][2] = Result

\* C22 as stated: the response built from an assistant event with the non-blank
\* string T and a result event, all flags off, has content T.
C22_ContentIsText ==
    OneTextThenResult(1) => response[1] = messages[1][1].message.s

\* c is t without the whitespace at its two ends
Trimmed(c, t) ==
    \E i, j \in 1..Len(t) :
        /\ i <= j
        /\ c = SubSeq(t, i, j)
        /\ t[i] \notin Whitespace
        /\ t[j] \notin Whitespace
        /\ \A k \in 1..Len(t) : (k < i \/ k > j) => t[k] \in Whitespace

\* C22 (amended): the response built from an assistant event with the non-blank
\* string T and a result event, all flags off, has as content T without its
\* leading and trailing whitespace.
C22_ContentIsTrimmedText ==
    OneTextThenResult(1) => Trimmed(response[1], messages[1][1].message.s)

\* a response was built from an assistant event whose text ends in a space
C22_Witness ==
    /\ OneTextThenResult(1)
    /\ messages[1][1].message.s = <<"a", " ">>
    /\ response[1] = <<"a">>

\* event msg contributes nothing to the content under any flags: it is no
\* assistant event with text and none of the kinds the flags include
Contentless(msg) ==
    \/ msg.type \in {"system", "result"}
    \/ msg.type = "assistant" /\ IsBlank(ExtractTextContent(msg.message))

\* C23: the content of a non-streaming response is never empty nor blank,
\* whatever events were collected and whatever the inclusion flags are, and it
\* is the fixed placeholder when none of the collected events has content.
C23_ContentNeverEmpty ==
    status[1] = "200" =>
        /\ response[1] # <<>>
        /\ ~IsBlank(response[1])
        /\ (\A i \in 1..Len(messages[1]) : Contentless(messages[1][i]))
              => response[1] = Placeholder

\* a response was built from a blank assistant event and a result event: its
\* content is the placeholder
C23_Witness ==
    /\ status[1] = "200"
    /\ messages[1] = <<Assistant(<<" ">>), Result>>
    /\ response[1] = Placeholder

----------------------------------------------------------------------------
(* Claims checked under SpecStream *)

\* C24: the step on which a streaming response ends, by completion, by three
\* timeouts or by the client going away, removes the stream's registry entry
\* and leaves the handle not running, having signalled a subprocess that was
\* live and no other; a response that has ended does not stream again, its
\* registry entry stays out and no second stop is begun for it.
C24_CleanupOnEveryExit ==
    [][/\ (pc[1] = "streaming" /\ pc'[1] # "streaming") =>
             /\ response_session[1] \notin DOMAIN active_streams'
             /\ ~is_running'[1]
             /\ IF Live(1)
                THEN signalled'[1] /\ stop_pc'[1] = "terminating"
                ELSE signalled' = signalled
       /\ pc[1] # "streaming" =>
             /\ pc'[1] # "streaming"
             /\ active_streams' = active_streams
             /\ stop_pc'[1] = "terminating" => stop_pc[1] = "terminating"
             /\ signalled' = signalled]_vars

\* the client went away while the subprocess was live: nothing closes the
\* stream, the registry entry is gone and the subprocess was signalled
C24_Witness ==
    /\ gen[1] = "closed"
    /\ \A i \in 1..Len(out[1]) : out[1][i].kind \notin {"stop", "done"}
    /\ active_streams = EmptyMap
    /\ signalled[1]
    /\ ~is_running[1]
    /\ \E i \in 1..Len(out[1]) : out[1][i].kind = "delta"

\* C25: when an exception gets out of the conversion loop, the response gets
\* exactly one error chunk on that step, from convert_stream and from no
\* wrapper around it, the stream is over, and nothing is emitted afterwards;
\* a stop begun by the cleanup can always go on.
C25_OneErrorChunk ==
    [][/\ (gen[1] = "open" /\ gen'[1] = "raised") =>
             /\ out'[1] = out[1] \o <<ErrorItem("Stream error")>>
             /\ pc'[1] \in {"stopping", "done"}
       /\ gen[1] = "raised" =>
             /\ gen'[1] = "raised"
             /\ out' = out
             /\ pc'[1] \in {"stopping", "done"}
             /\ pc[1] = "stopping" =>
                   ENABLED (StopGraceExpired(1) \/ StopReturn(1) \/ ProcTerminated(1)
                            \/ ProcStall(1) \/ \E code \in ExitCodes : ProcExit(1, code))]_vars

\* the exception came after a fragment was forwarded and the response is over
C25_Witness ==
    /\ gen[1] = "raised"
    /\ pc[1] = "done"
    /\ Len(out[1]) >= 3
    /\ out[1][Len(out[1]) - 1].kind = "delta"
    /\ out[1][Len(out[1])].kind = "error"

----------------------------------------------------------------------------
(* Claims checked under SpecReader *)

\* C26: every time the reader takes a line that is not blank off stdout, the
\* output queue grows by exactly one event, the parsed object or a text event
\* around the raw line, and the reader is still running afterwards.
C26_EveryLineOneEvent ==
    [][(/\ stdout_pipe[1] # <<>>
        /\ stdout_pipe'[1] = Tail(stdout_pipe[1])
        /\ Head(stdout_pipe[1]).kind # "blank") =>
            /\ Len(output_queue'[1]) = Len(output_queue[1]) + 1
            /\ output_queue'[1][Len(output_queue'[1])] \in
                   {Head(stdout_pipe[1]).ev, TextEvent(Head(stdout_pipe[1]).raw)}
            /\ stdout_reader'[1] = "running"]_vars

----------------------------------------------------------------------------
(* Claims checked under SpecHandle: the sentinel and the reader *)

\* C27: when the subprocess has exited with code 0 and nobody has stopped the
\* handle, the sentinel is the last thing on the output queue, no line that
\* gives an event is left unread behind it, and a consumer that has met the
\* sentinel has left no event on the queue.
C27_SentinelAfterAllEvents ==
    (os_state[1] = "exited" /\ returncode[1] = 0 /\ stop_pc[1] = "none") =>
        /\ \A i \in 1..Len(output_queue[1]) :
               output_queue[1][i] = Sentinel =>
                   /\ i = Len(output_queue[1])
                   /\ PipeEvents(stdout_pipe[1]) = <<>>
        /\ gen[1] = "sentinel" =>
               /\ output_queue[1] = <<>>
               /\ PipeEvents(stdout_pipe[1]) = <<>>

----------------------------------------------------------------------------
(* Claims checked under Spec: the hand-over of the handle *)

\* C28: waiting for the exit does not hold the handle back: whenever a handle
\* has spawned its subprocess and the subprocess is still running,
\* create_session can return the handle to its caller, who can then pull
\* events before the exit.
C28_HandedOverWhileRunning ==
    \A r \in Req :
        (pc[r] = "waiting" /\ process[r] = "set" /\ os_state[r] = "running") =>
            ENABLED WaitReturn(r)

----------------------------------------------------------------------------
(* Claims checked under SpecExtend *)

\* the contents of the fragments of a stream, in order
Fragments(items) ==
    LET ds == SelectSeq(items, LAMBDA it : it.kind = "delta")
    IN  [i \in 1..Len(ds) |-> ds[i].content]

----------------------------------------------------------------------------
(* Claims checked under SpecOutput: annotated blocks *)

\* the event is one whose annotated block the options ask for
BlockWanted(ev, opt) ==
    \/ ev.type = "thinking" /\ opt.include_thoughts
           /\ ev.content.tag = "str" /\ ~IsBlank(ev.content.s)
    \/ ev.type \in {"tool_call", "tool_result"} /\ opt.include_tool_calls
    \/ ev.type = "error" /\ opt.include_metadata

\* the annotated block as rendered for the event
Rendered(ev) ==
    IF ev.type = "thinking" THEN AnnotatedBlock(ev.type, ev.content.s)
    ELSE AnnotatedBlock(ev.type, PayloadText(ev.type, ev.content))

\* C30: when the stream takes a thinking, tool_call, tool_result or error
\* event whose flag is enabled, it emits every chunk into which the chunking
\* mode divides the rendered block, in order.
C30_WholeBlockEmitted ==
    [][(Pulls(1) /\ pc[1] = "streaming"
          /\ BlockWanted(Head(output_queue[1]), request[1].opt)) =>
          Emitted(1) = ChunksOf(request[1].opt.mode, Rendered(Head(output_queue[1])))]_vars

----------------------------------------------------------------------------
(* Claims checked under SpecFlags *)

\* the event is of a gated kind and the request's flag for the kind is off
FlagOff(ev, opt) ==
    \/ ev.type = "thinking" /\ ~opt.include_thoughts
    \/ ev.type \in {"tool_call", "tool_result"} /\ ~opt.include_tool_calls
    \/ ev.type = "error" /\ ~opt.include_metadata

\* C31: when the stream takes a thinking, tool_call, tool_result or error
\* event whose flag is off, nothing is emitted and the stream goes on as it
\* was; when it takes an assistant event with non-blank text, the delta of
\* that text is emitted in the chunks of the mode, whatever the flags are.
C31_FlagOffSilent ==
    [][(Pulls(1) /\ pc[1] = "streaming") =>
          /\ FlagOff(Head(output_queue[1]), request[1].opt) =>
                /\ out' = out
                /\ pc'[1] = "streaming"
                /\ gen'[1] = "open"
                /\ accumulated_content' = accumulated_content
                /\ active_streams' = active_streams
          /\ PullsAssistantText(1) =>
                /\ Emitted(1) = ChunksOf(request[1].opt.mode,
                                         DeltaOf(HeadText(1), accumulated_content[1]))
                /\ pc'[1] = "streaming"]_vars

\* message mode, every flag off: two events were produced and taken and the
\* stream holds the one chunk of the assistant text "a " and is open, so the
\* other event was of a gated kind and left nothing
C31_Witness ==
    /\ request[1].opt.mode = "message"
    /\ ~request[1].opt.include_thoughts
    /\ ~request[1].opt.include_tool_calls
    /\ ~request[1].opt.include_metadata
    /\ written[1] = 2
    /\ output_queue[1] = <<>>
    /\ os_state[1] = "none"
    /\ out[1] = <<Item("role", <<>>), Item("delta", <<"a", " ">>)>>
    /\ accumulated_content[1] = <<"a", " ">>
    /\ pc[1] = "streaming"

----------------------------------------------------------------------------
(* Claims checked under SpecOutput: the accumulated text *)

\* C32: when the stream takes an assistant event with non-blank text, the
\* accumulated value becomes the extracted text of that event, whatever it
\* was; when it takes any other event, or nothing, the accumulated value
\* stays as it is.  It starts empty.
C32_AccumulatedIsLastText ==
    [][/\ PullsAssistantText(1) => accumulated_content'[1] = HeadText(1)
       /\ ~PullsAssistantText(1) => accumulated_content'[1] = accumulated_content[1]
       /\ (pc[1] = "streaming" /\ Len(out[1]) = 1 /\ written[1] = 0) =>
              accumulated_content[1] = <<>>]_vars

\* a thinking block was emitted after the assistant text "a" and the
\* accumulated value is still "a"
C32_Witness ==
    /\ request[1].opt.mode = "message"
    /\ request[1].opt.include_thoughts
    /\ out[1] = <<Item("role", <<>>), Item("delta", <<"a">>),
                  Item("delta", AnnotatedBlock("thinking", <<"a">>))>>
    /\ accumulated_content[1] = <<"a">>

----------------------------------------------------------------------------
(* Claims checked under SpecOutput: exceptions in the loop body *)

\* processing the event raises: a thinking content that is no string, or the
\* chunk.get(...) after the first chunk of an annotated block
ProcessingRaises(ev, opt) ==
    \/ ev.type = "thinking" /\ opt.include_thoughts /\ ev.content.tag \notin {"str", "absent"}
    \/ BlockWanted(ev, opt)

\* C33: when the processing of an event raises, the stream stays open, no
\* error chunk is emitted and the converter takes the next event as any
\* other; and whenever the stream ends, its last two items are the stop chunk
\* and the completion signal.
C33_EventErrorAbsorbed ==
    [][/\ (Pulls(1) /\ pc[1] = "streaming"
             /\ ProcessingRaises(Head(output_queue[1]), request[1].opt)) =>
             /\ pc'[1] = "streaming"
             /\ gen'[1] = "open"
             /\ status'[1] = status[1]
             /\ \A i \in 1..Len(out'[1]) : out'[1][i].kind \in {"role", "delta"}
       /\ (pc[1] = "streaming" /\ pc'[1] # "streaming") =>
             /\ Len(out'[1]) >= 3
             /\ out'[1][Len(out'[1]) - 1].kind = "stop"
             /\ out'[1][Len(out'[1])].kind = "done"]_vars

\* character mode with metadata: the error block raised after its first
\* chunk, the assistant event after it was streamed, the stream ended
C33_Witness ==
    /\ request[1].opt.mode = "character"
    /\ request[1].opt.include_metadata
    /\ out[1] = <<Item("role", <<>>), Item("delta", <<"\n">>), Item("delta", <<"a">>),
                  Item("stop", <<>>), Item("done", <<>>)>>
    /\ pc[1] = "done"

----------------------------------------------------------------------------
(* Claims checked under SpecManagerOps *)

----------------------------------------------------------------------------
(* Claims checked under SpecCollect *)

\* C35: the collection loop never holds more than 11 events of a handle, no
\* event it holds comes after a result event, and once it holds a result
\* event or 11 events it has stopped; a loop that has stopped takes nothing
\* more from the queue.
C35_CollectsAtMostCap ==
    [][LET msgs == messages'[1]
           n == Len(messages'[1])
       IN  /\ n <= collect_cap + 1
           /\ \A i \in 1..(n - 1) : msgs[i].type # "result"
           /\ (n = collect_cap + 1 \/ (n > 0 /\ msgs[n].type = "result")) =>
                  pc'[1] # "collecting"
           /\ pc[1] # "collecting" =>
                  /\ messages' = messages
                  /\ Len(output_queue'[1]) >= Len(output_queue[1])]_vars

\* the loop stopped at the cap: it holds 11 events, none of them a result, and
\* the handle's twelfth event is left on the queue
C35_Witness ==
    /\ Len(messages[1]) = collect_cap + 1
    /\ \A i \in 1..Len(messages[1]) : messages[1][i].type # "result"
    /\ pc[1] # "collecting"
    /\ output_queue[1] # <<>>
    /\ written[1] = collect_cap + 2

----------------------------------------------------------------------------
(* Claims checked under SpecAggregate: partial updates *)

\* the response of r was built, all flags off, from assistant events with
\* non-blank string texts of which each extends the one before it
PartialUpdates(r) ==
    /\ status[r] = "200"
    /\ request[r].opt = DefaultOptions(FALSE)
    /\ messages[r] # <<>>
    /\ \A i \in 1..Len(messages[r]) :
          /\ messages[r][i].type = "assistant"
          /\ messages[r][i].message.tag = "str"
          /\ ~IsBlank(messages[r][i].message.s)
          /\ i > 1 => StartsWith(messages[r][i].message.s, messages[r][i - 1].message.s)

----------------------------------------------------------------------------
(* Claims checked under SpecExtract *)

\* the text field of the first block of kind text, <<>> when there is none
RECURSIVE FirstOfKindText(_)
FirstOfKindText(blocks) ==
    IF blocks = <<>> THEN <<>>
    ELSE IF Head(blocks).type = "text" THEN Head(blocks).text
    ELSE FirstOfKindText(Tail(blocks))

\* the text field of the first block of kind text whose text is not empty
FirstNonEmptyText(blocks) ==
    LET texts == SelectSeq(blocks, LAMBDA b : b.type = "text" /\ b.text # <<>>)
    IN  IF texts = <<>> THEN <<>> ELSE texts[1].text

\* the stream of r pulls an assistant event whose message content has a value
PullsMessageContent(r) ==
    /\ Pulls(r)
    /\ pc[r] = "streaming"
    /\ Head(output_queue[r]).type = "assistant"
    /\ ~Falsy(Head(output_queue[r]).message)

\* the stream of r treats the pulled event as one whose text is T: T becomes
\* the accumulated text and is emitted when it is not blank, and nothing
\* happens when it is
TreatedAsText(r, T) ==
    IF IsBlank(T)
    THEN Emitted(r) = <<>> /\ accumulated_content'[r] = accumulated_content[r]
    ELSE /\ accumulated_content'[r] = T
         /\ Emitted(r) = <<DeltaOf(T, accumulated_content[r])>>

\* C37 as stated: the text extracted from a message content is the string
\* itself for a string, the text field of the first block of kind text for a
\* list of blocks, and the empty string in every other case.
C37_FirstTextBlock ==
    [][\A r \in Req :
          PullsMessageContent(r) =>
             LET c == Head(output_queue[r]).message
             IN  TreatedAsText(r, CASE c.tag = "str"  -> c.s
                                    [] c.tag = "list" -> FirstOfKindText(c.blocks)
                                    [] OTHER          -> <<>>)]_vars

\* C37 as amended: the text extracted from a message content is the string
\* itself for a string, the text field of the first block of kind text whose
\* text is not empty for a list of blocks, and the empty string in every other
\* case (including a list with no such block).
C37_FirstNonEmptyTextBlock ==
    [][\A r \in Req :
          PullsMessageContent(r) =>
             LET c == Head(output_queue[r]).message
             IN  TreatedAsText(r, CASE c.tag = "str"  -> c.s
                                    [] c.tag = "list" -> FirstNonEmptyText(c.blocks)
                                    [] OTHER          -> <<>>)]_vars

\* a list of blocks was streamed: only a block of a list holds the text "."
C37_Witness ==
    /\ pc[1] = "streaming"
    /\ written[1] = 1
    /\ output_queue[1] = <<>>
    /\ accumulated_content[1] = <<".">>
    /\ out[1] = <<Item("role", <<>>), Item("delta", <<".">>)>>

\* C38: an assistant event contributes a text to the streamed response exactly
\* when it contributes that same text to the aggregated response: the stream
\* treats the event it pulls as the text the aggregation takes from it.
C38_SameTextBothPaths ==
    [][\A r \in Req :
          (/\ Pulls(r)
           /\ pc[r] = "streaming"
           /\ Head(output_queue[r]).type = "assistant") =>
             LET part == ContentPart(Head(output_queue[r]), DefaultOptions(FALSE))
             IN  TreatedAsText(r, IF part = <<>> THEN <<>> ELSE part[1])]_vars

----------------------------------------------------------------------------
(* Claims checked under SpecHandle: the reader tasks *)

\* C39: once stop() has returned and the handle is discarded (self.process is
\* None), neither reader task of the handle is still running.
C39_NoReaderAfterDiscard ==
    (stop_pc[1] = "stopped" /\ process[1] = "None") =>
        /\ stdout_reader[1] # "running"
        /\ stderr_reader[1] # "running"

----------------------------------------------------------------------------
(* Claims checked under Spec: the streaming registry *)

\* the stream of request r has started and has not ended
StreamInProgress(r) == pc[r] = "streaming"

\* C40: a stream in progress has its entry in the streaming registry, whatever
\* other streams have ended meanwhile, also under the same session id; and
\* when no stream is in progress the registry is empty.
C40_EntryUntilOwnEnd ==
    /\ \A r \in Req : StreamInProgress(r) => response_session[r] \in DOMAIN active_streams
    /\ (\A r \in Req : ~StreamInProgress(r)) => active_streams = EmptyMap

====
